---- MODULE Spec2Model ----
(***************************************************************************)
(* A model of the CogniLearn backend (Express routes over Mongoose models) *)
(* as a state machine: the stored documents are the state, every route     *)
(* handler is one action, and the last response sent is kept in `res`.     *)
(* Requests are processed one at a time (one handler runs to completion).  *)
(***************************************************************************)
EXTENDS Integers, Sequences, FiniteSets, TLC

VARIABLES
    res,          \* the response the last handler sent: [route, status, ...]
    quizDb,       \* Quiz collection: sequence of quiz documents, _id = index
    analyses,     \* ResearchAnalysis collection: sequence of documents
    expertise,    \* requester's user.expertise: sequence of [subject, level]
    userQuizzes,  \* requester's user.quizzes: sequence of [quizId, score, completedAt]
    userCourses,  \* requester's user.courses: sequence of [courseId, enrolledAt, ...]
    statistics,   \* requester's user.statistics
    achievements, \* requester's user.achievements: sequence of titles
    interests,    \* requester's user.interests: set of strings
    mentors,      \* the other users a mentor search can see
    now,          \* the clock, in ticks (OneDay ticks per day)
    enrollment,   \* Course collection: enrollment.count of each course, by _id
    authToken,    \* frontend lib/api.ts: the module variable authToken
    authorization,\* frontend: apiClient.defaults.headers.common['Authorization']
    localStorage, \* frontend: localStorage item 'auth_token'
    pending       \* frontend: the Authorization headers of the requests in flight

\* The state of the browser's API client.
browser == <<authToken, authorization, localStorage, pending>>

vars == <<res, quizDb, analyses, expertise, userQuizzes, userCourses,
          statistics, achievements, interests, mentors, now, enrollment, browser>>

----------------------------------------------------------------------------
(* Generic helpers                                                          *)

\* JavaScript's `undefined`: a field the client left out / a path never set.
NoValue == "undefined"

Min(a, b) == IF a <= b THEN a ELSE b
Max(a, b) == IF a >= b THEN a ELSE b

\* Math.round(n / d) for integers n >= 0, d > 0: nearest integer, halves up.
RoundDiv(n, d) == (2 * n + d) \div (2 * d)

RECURSIVE SumSeq(_)
SumSeq(s) == IF s = <<>> THEN 0 ELSE Head(s) + SumSeq(Tail(s))

Range(s) == {s[i] : i \in 1..Len(s)}

NoResponse == [route |-> "none", status |-> 0]

\* JavaScript's null.
Null == "null"

\* An Authorization header: absent, or `Bearer ${token}`.
NoHeader == [present |-> FALSE, scheme |-> "", token |-> ""]
Bearer(token) == [present |-> TRUE, scheme |-> "Bearer", token |-> token]

\* No page of the frontend is open: the API client module is not loaded.
BrowserClosed ==
    /\ authToken = Null
    /\ authorization = NoHeader
    /\ localStorage = Null
    /\ pending = <<>>

\* The requester's statistics as the User schema defaults them.
DefaultStatistics ==
    [totalCoursesCompleted |-> 0, totalQuizzesTaken |-> 0, averageQuizScore |-> 0,
     currentStreak |-> 0, longestStreak |-> 0]

\* quizSchema.statistics as the schema defaults it.
DefaultQuizStatistics ==
    [totalAttempts |-> 0, averageScore |-> 0, averageTimeSpent |-> 0, passRate |-> 0]

----------------------------------------------------------------------------
(* Schema enums                                                             *)

DifficultyEnum == {"easy", "medium", "hard"}
LevelEnum == {"beginner", "intermediate", "advanced"}
QuestionTypeEnum == {"multiple-choice", "true-false", "short-answer", "essay"}

\* expertise.level is a JavaScript Number, not an integer type: the model keeps a
\* level as a count of 1/LevelScale units, so that 2.5 is a value it can hold.
LevelScale == 2

\* The level n (a whole number) in the model's units.
Lv(n) == n * LevelScale

\* min and max of userSchema.expertise.level
MinLevel == 1
MaxLevel == 10

\* virtual overallExpertise: Math.round(total / expertise.length), 0 when empty
RECURSIVE LevelSum(_)
LevelSum(exps) == IF exps = <<>> THEN 0 ELSE Head(exps).level + LevelSum(Tail(exps))

OverallExpertise(exps) ==
    IF Len(exps) = 0 THEN 0 ELSE RoundDiv(LevelSum(exps), Len(exps) * LevelScale)

----------------------------------------------------------------------------
(* Endpoints backed by the AI service, with their fallbacks                 *)
(*   POST /api/quizzes/generate, POST /api/research/analyze,                *)
(*   GET /api/courses/recommendations                                       *)

\* Bound on the documents the generate/analyze handlers may add in a run.
MaxDocs == 1

Topics == {"algebra"}

\* req.body.difficulty as a client may send it; "expert" is outside the enum.
DifficultyInputs == {NoValue, "easy", "medium", "hard", "expert"}

\* level: difficulty === 'easy' ? 'beginner' : difficulty === 'hard' ? 'advanced' : 'intermediate'
QuizLevel(difficulty) ==
    IF difficulty = "easy" THEN "beginner"
    ELSE IF difficulty = "hard" THEN "advanced" ELSE "intermediate"

\* The placeholder question of the fallback quiz.
FallbackQuestion(topic, difficulty) ==
    [type |-> "multiple-choice",
     options |-> <<[text |-> "Option A", isCorrect |-> TRUE],
                   [text |-> "Option B", isCorrect |-> FALSE],
                   [text |-> "Option C", isCorrect |-> FALSE],
                   [text |-> "Option D", isCorrect |-> FALSE]>>,
     correctAnswer |-> NoValue,
     explanation |-> "placeholder",
     difficulty |-> difficulty,
     points |-> 1]

\* new Quiz({...}) of the fallback branch; unset paths take the schema defaults.
FallbackQuiz(topic, difficulty) ==
    [subject |-> topic, category |-> "General",
     level |-> QuizLevel(difficulty), difficulty |-> difficulty,
     questions |-> <<FallbackQuestion(topic, difficulty)>>,
     passingScore |-> 70, hasMaxAttempts |-> FALSE, maxAttempts |-> 0,
     showCorrectAnswers |-> TRUE, isPublic |-> TRUE,
     aiGenerated |-> FALSE, status |-> "draft",
     statistics |-> DefaultQuizStatistics]

\* new Quiz({...}) of the AI branch, from the questions the service returned.
GeneratedQuiz(topic, difficulty, questions) ==
    [subject |-> topic, category |-> "General",
     level |-> QuizLevel(difficulty), difficulty |-> difficulty,
     questions |-> questions,
     passingScore |-> 70, hasMaxAttempts |-> FALSE, maxAttempts |-> 0,
     showCorrectAnswers |-> TRUE, isPublic |-> TRUE,
     aiGenerated |-> TRUE, status |-> "published",
     statistics |-> DefaultQuizStatistics]

\* The validators quiz.save() runs: required paths and the enums of the schemas.
QuizValidates(doc) ==
    /\ doc.subject # NoValue
    /\ doc.category # NoValue
    /\ doc.level \in LevelEnum
    /\ doc.difficulty \in DifficultyEnum
    /\ doc.passingScore \in 0..100
    /\ \A i \in 1..Len(doc.questions) :
          /\ doc.questions[i].type \in QuestionTypeEnum
          /\ doc.questions[i].difficulty \in DifficultyEnum

\* virtual estimatedDuration
RECURSIVE QuestionMinutes(_)
QuestionMinutes(qs) ==
    IF qs = <<>> THEN 0
    ELSE (CASE Head(qs).type \in {"multiple-choice", "true-false"} -> 1
            [] Head(qs).type = "short-answer" -> 2
            [] Head(qs).type = "essay" -> 5
            [] OTHER -> 1) + QuestionMinutes(Tail(qs))

EstimatedDuration(doc) == Max(QuestionMinutes(doc.questions), 5)

\* What axios.post(AI_SERVICE_URL/api/generate-quiz) may produce: a failed call,
\* a reply without questions, a reply with a question, and whether the document
\* built from the reply (questions spread as sent, sourceContent given as an
\* object) is accepted by the driver when saved.
AiQuestion ==
    [type |-> "short-answer", options |-> <<>>, correctAnswer |-> "x",
     explanation |-> "because", difficulty |-> "medium", points |-> 1]

AiQuizReplies ==
    {[ok |-> FALSE, hasQuestions |-> FALSE, questions |-> <<>>, stored |-> FALSE],
     [ok |-> TRUE, hasQuestions |-> FALSE, questions |-> <<>>, stored |-> FALSE],
     [ok |-> TRUE, hasQuestions |-> TRUE, questions |-> <<AiQuestion>>, stored |-> FALSE],
     [ok |-> TRUE, hasQuestions |-> TRUE, questions |-> <<AiQuestion>>, stored |-> TRUE]}

\* The AI branch runs to its res.json: the call succeeded, questions.map did not
\* throw, and quiz.save() resolved.
GeneratePrimaryOk(topic, difficulty, ai) ==
    /\ ai.ok
    /\ ai.hasQuestions
    /\ ai.stored
    /\ QuizValidates(GeneratedQuiz(topic, difficulty, ai.questions))

GenerateResponse(status, message, doc) ==
    [route |-> "POST /api/quizzes/generate", status |-> status, message |-> message,
     difficulty |-> doc.difficulty, level |-> doc.level,
     totalQuestions |-> Len(doc.questions),
     estimatedDuration |-> EstimatedDuration(doc),
     aiGenerated |-> doc.aiGenerated, quizStatus |-> doc.status]

GenerateError(status, message, aiFailed) ==
    [route |-> "POST /api/quizzes/generate", status |-> status, message |-> message,
     aiFailed |-> aiFailed]

\* router.post('/generate')
GenerateQuiz(topic, difficultyIn, ai) ==
    LET difficulty == IF difficultyIn = NoValue THEN "medium" ELSE difficultyIn
        gen == GeneratedQuiz(topic, difficulty, ai.questions)
        fb == FallbackQuiz(topic, difficulty)
    IN  /\ Len(quizDb) < MaxDocs
        /\ IF topic = NoValue
           THEN /\ res' = GenerateError(400, "Topic is required for quiz generation", ~ai.ok)
                /\ UNCHANGED quizDb
           ELSE IF GeneratePrimaryOk(topic, difficulty, ai)
           THEN /\ quizDb' = Append(quizDb, gen)
                /\ res' = [GenerateResponse(200, "Quiz generated successfully", gen)
                             EXCEPT !.quizStatus = NoValue] @@ [aiFailed |-> FALSE]
           ELSE IF QuizValidates(fb)
           THEN /\ quizDb' = Append(quizDb, fb)
                /\ res' = GenerateResponse(200, "Quiz template created (AI service unavailable)", fb)
                            @@ [aiFailed |-> ~ai.ok]
           ELSE \* fallbackQuiz.save() rejects inside the catch block: outer catch
                /\ res' = GenerateError(500, "Failed to generate quiz", ~ai.ok)
                /\ UNCHANGED quizDb
        /\ UNCHANGED <<browser, enrollment, analyses, expertise, userQuizzes, userCourses, statistics,
                       achievements, interests, mentors, now>>

\* text.length below which POST /analyze refuses the text.
MinTextLength == 100

\* originalText keeps the first 10000 characters.
MaxStoredText == 10000

\* req.body.text, by what the handler reads of it: its length, the length of
\* text.split(/\s+/) and the number of non-blank pieces of text.split(/[.!?]+/).
\* The last one is a text of 100 dots: one "word", no sentence.
TextInputs ==
    {[given |-> FALSE, len |-> 0, words |-> 0, sentences |-> 0],
     [given |-> TRUE, len |-> 40, words |-> 8, sentences |-> 1],
     [given |-> TRUE, len |-> 120, words |-> 24, sentences |-> 2],
     [given |-> TRUE, len |-> 400, words |-> 66, sentences |-> 3],
     [given |-> TRUE, len |-> 100, words |-> 1, sentences |-> 0]}

TitleInputs == {NoValue, "paper"}

\* What axios.post(AI_SERVICE_URL/api/analyze-research) may produce: a failed
\* call, a reply whose data has no `analysis`, a complete reply.
AiAnalysisReplies ==
    {[ok |-> FALSE, hasAnalysis |-> FALSE],
     [ok |-> TRUE, hasAnalysis |-> FALSE],
     [ok |-> TRUE, hasAnalysis |-> TRUE]}

\* Math.round(wordCount / sentences.length); a division by 0 gives Infinity.
AvgWordsPerSentence(text) ==
    IF text.sentences = 0 THEN [infinite |-> TRUE, n |-> 0]
    ELSE [infinite |-> FALSE, n |-> RoundDiv(text.words, text.sentences)]

\* Math.min(Math.max(Math.round(avgWordsPerSentence / 5), 1), 9)
FallbackComplexity(avg) ==
    IF avg.infinite THEN 9 ELSE Min(Max(RoundDiv(avg.n, 5), 1), 9)

\* avgWordsPerSentence > 20 ? 'Advanced' : avgWordsPerSentence > 15 ? 'Intermediate' : 'Basic'
FallbackReadingLevel(avg) ==
    IF avg.infinite THEN "Advanced"
    ELSE IF avg.n > 20 THEN "Advanced" ELSE IF avg.n > 15 THEN "Intermediate" ELSE "Basic"

FallbackAnalysis(text) ==
    [summaryLen |-> Min(text.len, 500) + 3,
     wordCount |-> text.words,
     complexity |-> FallbackComplexity(AvgWordsPerSentence(text)),
     readingLevel |-> FallbackReadingLevel(AvgWordsPerSentence(text))]

AnalysisDoc(title, text, kind) ==
    [userId |-> "me", title |-> title, textLen |-> Min(text.len, MaxStoredText),
     kind |-> kind, isPublic |-> FALSE]

\* router.post('/analyze')
AnalyzeResearch(text, title, ai) ==
    LET route == "POST /api/research/analyze"
        aiDoc == AnalysisDoc(IF title # NoValue THEN title ELSE "Research Analysis",
                             text, "ai")
        fbDoc == AnalysisDoc(IF title # NoValue THEN title ELSE "Research Analysis (Fallback)",
                             text, "fallback")
    IN  /\ Len(analyses) < MaxDocs
        /\ IF ~text.given \/ text.len = 0
           THEN /\ res' = [route |-> route, status |-> 400, aiFailed |-> ~ai.ok,
                           message |-> "Research text is required"]
                /\ UNCHANGED analyses
           ELSE IF text.len < MinTextLength
           THEN /\ res' = [route |-> route, status |-> 400, aiFailed |-> ~ai.ok,
                           message |-> "Text too short for meaningful analysis"]
                /\ UNCHANGED analyses
           ELSE IF ai.ok /\ ai.hasAnalysis
           THEN /\ analyses' = Append(analyses, aiDoc)
                /\ res' = [route |-> route, status |-> 200, aiFailed |-> FALSE,
                           message |-> "Research analyzed successfully",
                           analysisId |-> Len(analyses) + 1, tags |-> "ai"]
           ELSE \* the call failed, or res.json threw on analysis.analysis.summary
                \* after the first document was saved
                /\ analyses' = (IF ai.ok THEN Append(analyses, aiDoc) ELSE analyses)
                                  \o <<fbDoc>>
                /\ res' = [route |-> route, status |-> 200, aiFailed |-> ~ai.ok,
                           message |-> "Basic analysis completed (AI service unavailable)",
                           analysisId |-> Len(analyses') , tags |-> "fallback-analysis",
                           analysis |-> FallbackAnalysis(text)]
        /\ UNCHANGED <<browser, enrollment, quizDb, expertise, userQuizzes, userCourses, statistics,
                       achievements, interests, mentors, now>>

\* The Course collection the recommendation queries read.
CourseCatalog ==
    <<[category |-> "math", tags |-> {"algebra"}, skills |-> {}, rating |-> 4,
       status |-> "published", isPublic |-> TRUE],
      [category |-> "physics", tags |-> {"math"}, skills |-> {"algebra"}, rating |-> 5,
       status |-> "published", isPublic |-> TRUE],
      [category |-> "math", tags |-> {}, skills |-> {}, rating |-> 3,
       status |-> "draft", isPublic |-> TRUE]>>

CourseIds == 1..Len(CourseCatalog)

\* enrollment.count of every course as the schema defaults it.
NoEnrollments == [c \in CourseIds |-> 0]

Listed(c) == CourseCatalog[c].status = "published" /\ CourseCatalog[c].isPublic

\* .limit(10) of both recommendation queries
RecommendationLimit == 10

\* .sort({'ratings.average': -1}) over a set of course ids
RECURSIVE ByRatingDesc(_)
ByRatingDesc(ids) ==
    IF ids = {} THEN <<>>
    ELSE LET top == CHOOSE c \in ids :
                       \A d \in ids : CourseCatalog[d].rating <= CourseCatalog[c].rating
         IN  <<top>> \o ByRatingDesc(ids \ {top})

EnrolledIds == {userCourses[i].courseId : i \in 1..Len(userCourses)}

\* The fallback query of GET /recommendations.
FallbackCourses ==
    LET userCategories == {expertise[i].subject : i \in 1..Len(expertise)}
        match == {c \in CourseIds :
                    /\ Listed(c)
                    /\ c \notin EnrolledIds
                    /\ \/ CourseCatalog[c].category \in interests \cup userCategories
                       \/ CourseCatalog[c].tags \cap interests # {}
                       \/ CourseCatalog[c].skills \cap interests # {}}
    IN  SubSeq(ByRatingDesc(match), 1, Min(Cardinality(match), RecommendationLimit))

\* recommendedCourseIds.map(id => courses.find(...)).filter(Boolean)
AiCourses(recommendations) ==
    SelectSeq(recommendations, Listed)

\* What axios.post(AI_SERVICE_URL/api/recommendations) may produce.
AiRecommendationReplies ==
    {[ok |-> FALSE, hasList |-> FALSE, recommendations |-> <<>>],
     [ok |-> TRUE, hasList |-> FALSE, recommendations |-> <<>>],
     [ok |-> TRUE, hasList |-> TRUE, recommendations |-> <<3, 2>>],
     [ok |-> TRUE, hasList |-> TRUE, recommendations |-> <<2, 1>>]}

\* router.get('/recommendations') of the courses router
CourseRecommendations(ai) ==
    /\ IF ai.ok /\ ai.hasList
       THEN res' = [route |-> "GET /api/courses/recommendations", status |-> 200,
                    aiFailed |-> FALSE, algorithm |-> "ai-powered",
                    courses |-> AiCourses(ai.recommendations)]
       ELSE res' = [route |-> "GET /api/courses/recommendations", status |-> 200,
                    aiFailed |-> ~ai.ok, algorithm |-> "fallback",
                    courses |-> FallbackCourses]
    /\ UNCHANGED <<browser, enrollment, quizDb, analyses, expertise, userQuizzes, userCourses, statistics,
                   achievements, interests, mentors, now>>

InitAI ==
    /\ res = NoResponse
    /\ BrowserClosed
    /\ enrollment = NoEnrollments
    /\ quizDb = <<>>
    /\ analyses = <<>>
    /\ expertise \in {<<>>, <<[subject |-> "math", level |-> Lv(2)]>>}
    /\ userQuizzes = <<>>
    /\ userCourses \in {<<>>, <<[courseId |-> 1, enrolledAt |-> 0, progress |-> 0,
                                 status |-> "enrolled"]>>}
    /\ statistics = DefaultStatistics
    /\ achievements = <<>>
    /\ interests \in {{}, {"algebra"}}
    /\ mentors = <<>>
    /\ now = 0

NextAI ==
    \/ \E topic \in Topics \cup {NoValue}, d \in DifficultyInputs, ai \in AiQuizReplies :
          GenerateQuiz(topic, d, ai)
    \/ \E text \in TextInputs, title \in TitleInputs, ai \in AiAnalysisReplies :
          AnalyzeResearch(text, title, ai)
    \/ \E ai \in AiRecommendationReplies : CourseRecommendations(ai)

SpecAI == InitAI /\ [][NextAI]_vars

\* C1: whenever the call to the AI service fails, POST /api/quizzes/generate with
\* a topic, POST /api/research/analyze with a text of at least 100 characters and
\* GET /api/courses/recommendations answer with a success response (fallback
\* content), never with an error response.
C1_FallbackNeverErrors ==
    (/\ res.route \in {"POST /api/quizzes/generate", "POST /api/research/analyze",
                       "GET /api/courses/recommendations"}
     /\ res.aiFailed
     /\ res.route = "POST /api/quizzes/generate" => res.message # "Topic is required for quiz generation"
     /\ res.route = "POST /api/research/analyze" => res.status # 400)
    => res.status = 200

----------------------------------------------------------------------------
(* Profile endpoints that write user.expertise                              *)
(*   PUT /api/profiles/me, POST /api/profiles/me/expertise,                 *)
(*   DELETE /api/profiles/me/expertise/:subject                             *)

\* Bound on the number of expertise entries a user holds in a run.
MaxExpertise == 2

Subjects == {"math", "physics"}

\* A `level` as a request carries it: left out, a number (in 1/LevelScale units:
\* 0, 1, 2.5, 10, 10.5, 11) or a string that is no number ("abc").
LevelInputs ==
    {[kind |-> "absent", v |-> 0], [kind |-> "text", v |-> 0]}
    \cup {[kind |-> "number", v |-> n] :
             n \in {0, Lv(1), Lv(2) + 1, Lv(MaxLevel), Lv(MaxLevel) + 1, Lv(MaxLevel + 1)}}

ExpertiseEntryInputs == [subject : Subjects \cup {NoValue}, level : LevelInputs]

ExpertiseArrayInputs ==
    UNION {[1..n -> ExpertiseEntryInputs] : n \in 0..MaxExpertise}

\* JavaScript truthiness of a level: undefined and 0 are falsy, "abc" is truthy.
LevelTruthy(l) == l.kind = "text" \/ (l.kind = "number" /\ l.v # 0)

\* level < 1 || level > 10; every comparison with "abc" (NaN) is false.
LevelOutOfRange(l) ==
    l.kind = "number" /\ (l.v < Lv(MinLevel) \/ l.v > Lv(MaxLevel))

\* The schema's cast of a level to Number: "abc" does not cast.
LevelCasts(l) == l.kind # "text"

\* The value the schema stores: the default 1 for a level left out.
StoredLevel(l) == IF l.kind = "absent" THEN Lv(1) ELSE l.v

\* The schema's min/max validators on a stored level.
LevelValidates(v) == v >= Lv(MinLevel) /\ v <= Lv(MaxLevel)

StoredEntry(e) == [subject |-> e.subject, level |-> StoredLevel(e.level)]

ProfileResponse(route, status, message, exps) ==
    [route |-> route, status |-> status, message |-> message,
     expertise |-> exps, overallExpertise |-> OverallExpertise(exps)]

\* router.put('/me'); body.expertise is left out, not an array, or an array.
PutMe(body) ==
    LET route == "PUT /api/profiles/me"
        arr == body.entries
        casts == \A i \in 1..Len(arr) : LevelCasts(arr[i].level)
        stored == [i \in 1..Len(arr) |-> StoredEntry(arr[i])]
        valid == \A i \in 1..Len(arr) : LevelValidates(stored[i].level)
    IN  /\ IF body.kind = "absent"
           THEN /\ res' = ProfileResponse(route, 200, "Profile updated successfully", expertise)
                /\ UNCHANGED expertise
           ELSE IF body.kind = "notArray"
           THEN /\ res' = ProfileResponse(route, 400, "Expertise must be an array", expertise)
                /\ UNCHANGED expertise
           ELSE IF \E i \in 1..Len(arr) : arr[i].subject = NoValue
           THEN /\ res' = ProfileResponse(route, 400, "Each expertise entry must have a subject", expertise)
                /\ UNCHANGED expertise
           ELSE IF \E i \in 1..Len(arr) :
                      LevelTruthy(arr[i].level) /\ LevelOutOfRange(arr[i].level)
           THEN /\ res' = ProfileResponse(route, 400, "Expertise level must be between 1 and 10", expertise)
                /\ UNCHANGED expertise
           ELSE IF casts /\ valid  \* findByIdAndUpdate(..., { runValidators: true })
           THEN /\ expertise' = stored
                /\ res' = ProfileResponse(route, 200, "Profile updated successfully", stored)
           ELSE /\ res' = ProfileResponse(route, 500, "Failed to update profile", expertise)
                /\ UNCHANGED expertise
        /\ UNCHANGED <<browser, enrollment, quizDb, analyses, userQuizzes, userCourses, statistics,
                       achievements, interests, mentors, now>>

\* user.expertise.findIndex(exp => exp.subject === subject): 0 stands for -1
ExpertiseIndex(exps, subject) ==
    IF \E i \in 1..Len(exps) : exps[i].subject = subject
    THEN CHOOSE i \in 1..Len(exps) :
            /\ exps[i].subject = subject
            /\ \A j \in 1..(i - 1) : exps[j].subject # subject
    ELSE 0

\* router.post('/me/expertise'); `level = 1` defaults a level left out.
AddExpertise(subject, levelIn) ==
    LET route == "POST /api/profiles/me/expertise"
        level == IF levelIn.kind = "absent" THEN [kind |-> "number", v |-> Lv(1)] ELSE levelIn
        idx == ExpertiseIndex(expertise, subject)
        updated == IF idx # 0
                   THEN [expertise EXCEPT ![idx].level = level.v]
                   ELSE Append(expertise, [subject |-> subject, level |-> level.v])
    IN  /\ idx = 0 => Len(expertise) < MaxExpertise
        /\ IF subject = NoValue
           THEN /\ res' = ProfileResponse(route, 400, "Subject is required", expertise)
                /\ UNCHANGED expertise
           ELSE IF LevelOutOfRange(level)
           THEN /\ res' = ProfileResponse(route, 400, "Level must be between 1 and 10", expertise)
                /\ UNCHANGED expertise
           ELSE IF LevelCasts(level) /\ LevelValidates(level.v)  \* user.save()
           THEN /\ expertise' = updated
                /\ res' = ProfileResponse(route, 200, "Expertise updated successfully", updated)
           ELSE /\ res' = ProfileResponse(route, 500, "Failed to update expertise", expertise)
                /\ UNCHANGED expertise
        /\ UNCHANGED <<browser, enrollment, quizDb, analyses, userQuizzes, userCourses, statistics,
                       achievements, interests, mentors, now>>

\* user.expertise.filter(exp => exp.subject !== subject)
WithoutSubject(exps, subject) ==
    LET Keep(e) == e.subject # subject IN SelectSeq(exps, Keep)

\* router.delete('/me/expertise/:subject')
RemoveExpertise(subject) ==
    /\ expertise' = WithoutSubject(expertise, subject)
    /\ res' = ProfileResponse("DELETE /api/profiles/me/expertise/:subject", 200,
                              "Expertise removed successfully", expertise')
    /\ UNCHANGED <<browser, enrollment, quizDb, analyses, userQuizzes, userCourses, statistics,
                   achievements, interests, mentors, now>>

InitProfile ==
    /\ res = NoResponse
    /\ BrowserClosed
    /\ enrollment = NoEnrollments
    /\ quizDb = <<>>
    /\ analyses = <<>>
    /\ expertise \in {<<>>, <<[subject |-> "math", level |-> Lv(3)]>>}
    /\ userQuizzes = <<>>
    /\ userCourses = <<>>
    /\ statistics = DefaultStatistics
    /\ achievements = <<>>
    /\ interests = {}
    /\ mentors = <<>>
    /\ now = 0

\* req.body.expertise of PUT /me: left out, not an array, or an array
ProfileBodyInputs ==
    {[kind |-> "absent", entries |-> <<>>], [kind |-> "notArray", entries |-> <<>>]}
    \cup {[kind |-> "array", entries |-> a] : a \in ExpertiseArrayInputs}

NextProfile ==
    \/ \E body \in ProfileBodyInputs : PutMe(body)
    \/ \E subject \in Subjects \cup {NoValue}, l \in LevelInputs : AddExpertise(subject, l)
    \/ \E subject \in Subjects : RemoveExpertise(subject)

SpecProfile == InitProfile /\ [][NextProfile]_vars

\* C2: after any sequence of PUT /me, POST /me/expertise and DELETE
\* /me/expertise/:subject requests, every stored expertise entry has a level that
\* is an integer between 1 and 10.
C2_ExpertiseLevelInteger ==
    \A i \in 1..Len(expertise) :
        /\ expertise[i].level % LevelScale = 0
        /\ expertise[i].level >= Lv(MinLevel)
        /\ expertise[i].level <= Lv(MaxLevel)

\* The part of C2 the validators do enforce: a stored level is within 1..10.
ExpertiseLevelInRange ==
    \A i \in 1..Len(expertise) :
        expertise[i].level >= Lv(MinLevel) /\ expertise[i].level <= Lv(MaxLevel)

----------------------------------------------------------------------------
(* GET /api/mentors/recommendations                                         *)

\* Bound on the number of other users in the User collection.
MaxMentors == 2

\* Bound on how far the clock advances in a run, in ticks.
MaxClock == 1

\* One day, in ticks of the model's clock (a tick is half a day).
OneDay == 2

\* `limit = 5` of req.query
DefaultMentorLimit == 5

\* The profiles other users may hold: a base profile and the profiles that
\* differ from it in one respect.
BaseCandidate ==
    [role |-> "mentor", isEmailVerified |-> TRUE,
     expertise |-> <<[subject |-> "math", level |-> Lv(6)]>>,
     totalCoursesCompleted |-> 0, averageQuizScore |-> 60, longestStreak |-> 3,
     lastActiveAt |-> 0]

CandidateExpertise ==
    {<<[subject |-> "math", level |-> Lv(4)]>>,
     <<[subject |-> "math", level |-> Lv(6)]>>,
     <<[subject |-> "math", level |-> Lv(10)]>>,
     <<[subject |-> "physics", level |-> Lv(5)], [subject |-> "math", level |-> Lv(6)]>>}

CandidateProfiles ==
    {[BaseCandidate EXCEPT !.expertise = e] : e \in CandidateExpertise}
    \cup {[BaseCandidate EXCEPT !.totalCoursesCompleted = 2],
          [BaseCandidate EXCEPT !.averageQuizScore = 80],
          [BaseCandidate EXCEPT !.lastActiveAt = 0 - 30 * OneDay],
          [BaseCandidate EXCEPT !.role = "student"],
          [BaseCandidate EXCEPT !.isEmailVerified = FALSE]}

\* The User collection: the requester (_id 0) and the other users (_id = index).
Requester ==
    [id |-> 0, role |-> "student", isEmailVerified |-> TRUE, expertise |-> expertise,
     totalCoursesCompleted |-> statistics.totalCoursesCompleted,
     averageQuizScore |-> statistics.averageQuizScore,
     longestStreak |-> statistics.longestStreak, lastActiveAt |-> now]

AllUsers ==
    <<Requester>> \o [i \in 1..Len(mentors) |-> mentors[i] @@ [id |-> i]]

\* req.query.subjects, after subjects.split(','): <<>> when the parameter is left
\* out or empty (the split of a non-empty string is never empty).
SubjectsInputs ==
    {<<>>, <<"math">>, <<"physics", "math">>, <<"math", "math">>}

\* req.query.limit, after parseInt: <<>> when the parameter is left out.
LimitInputs == {<<>>, <<1>>}

\* subjects ? subjects.split(',') : user.expertise.map(exp => exp.subject)
SearchSubjects(param) ==
    IF param # <<>> THEN param ELSE [i \in 1..Len(expertise) |-> expertise[i].subject]

\* userExpertise[subject] || 0, where a later entry of a subject overwrites an
\* earlier one
LevelOf(exps, subject) ==
    IF \E i \in 1..Len(exps) : exps[i].subject = subject
    THEN exps[CHOOSE i \in 1..Len(exps) :
                 /\ exps[i].subject = subject
                 /\ \A j \in (i + 1)..Len(exps) : exps[j].subject # subject].level
    ELSE 0

\* levelDiff >= 2 && levelDiff <= 6
MinLevelDiff == 2
MaxLevelDiff == 6

LevelDiff(m, uexp, subject) == LevelOf(m.expertise, subject) - LevelOf(uexp, subject)

\* The range test without its upper end.
InMentorRangeNoCap(diff) == diff >= Lv(MinLevelDiff)

InMentorRange(diff) == diff >= Lv(MinLevelDiff) /\ diff <= Lv(MaxLevelDiff)

\* The searchSubjects.forEach loop: the sum of levelDiff * 10 over the search
\* subjects whose difference is in range (in 1/LevelScale units).
RECURSIVE GapScore(_, _, _)
GapScore(m, uexp, subjects) ==
    IF subjects = <<>> THEN 0
    ELSE (IF InMentorRange(LevelDiff(m, uexp, Head(subjects)))
          THEN LevelDiff(m, uexp, Head(subjects)) * 10 ELSE 0)
         + GapScore(m, uexp, Tail(subjects))

CanMentor(m, uexp, subjects) ==
    \E i \in 1..Len(subjects) : InMentorRange(LevelDiff(m, uexp, subjects[i]))

\* daysSinceActive <= 7 gives 20, <= 30 gives 10
ActivityBonus(m, at) ==
    IF at - m.lastActiveAt <= 7 * OneDay THEN 20
    ELSE IF at - m.lastActiveAt <= 30 * OneDay THEN 10 ELSE 0

\* totalCoursesCompleted * 2
CourseBonus(m) == m.totalCoursesCompleted * 2

\* Math.min(averageQuizScore, 100)
QuizBonus(m) == Min(m.averageQuizScore, 100)

\* (now is Date.now() of the request.)
\* Math.round(score) of the sum the map callback accumulates; the last term is
\* overallLevel * 5 with overallLevel = (sum of levels) / expertise.length.
MentorScoreNoQuiz(m, uexp, subjects) ==
    LET n == Len(m.expertise)
        whole == CourseBonus(m) + m.longestStreak + ActivityBonus(m, now)
    IN  RoundDiv(GapScore(m, uexp, subjects) * n + whole * LevelScale * n
                   + 5 * LevelSum(m.expertise),
                 LevelScale * n)

MentorScore(m, uexp, subjects) ==
    LET n == Len(m.expertise)
        whole == CourseBonus(m) + QuizBonus(m) + m.longestStreak + ActivityBonus(m, now)
    IN  RoundDiv(GapScore(m, uexp, subjects) * n + whole * LevelScale * n
                   + 5 * LevelSum(m.expertise),
                 LevelScale * n)

\* The filter without isEmailVerified: true.
IsPotentialMentorUnverified(u, subjects) ==
    /\ u.id # 0
    /\ u.role \in {"mentor", "student"}
    /\ \E i \in 1..Len(u.expertise) : u.expertise[i].subject \in Range(subjects)

\* The User.find filter of potentialMentors.
IsPotentialMentor(u, subjects) ==
    /\ u.id # 0
    /\ u.role \in {"mentor", "student"}
    /\ \E i \in 1..Len(u.expertise) : u.expertise[i].subject \in Range(subjects)
    /\ u.isEmailVerified

\* subjectMatch: the search subjects where the mentor's level is the higher one
SubjectMatch(m, uexp, subjects) ==
    LET Higher(sub) == LevelOf(m.expertise, sub) > LevelOf(uexp, sub)
    IN  SelectSeq(subjects, Higher)

ScoredMentor(m, uexp, subjects) ==
    [id |-> m.id, score |-> MentorScore(m, uexp, subjects),
     subjectMatch |-> SubjectMatch(m, uexp, subjects),
     overallExpertise |-> OverallExpertise(m.expertise)]

\* .sort((a, b) => b.mentorScore - a.mentorScore): a stable sort, highest first
RECURSIVE InsertByScore(_, _)
InsertByScore(sorted, e) ==
    IF sorted = <<>> THEN <<e>>
    ELSE IF Head(sorted).score >= e.score
         THEN <<Head(sorted)>> \o InsertByScore(Tail(sorted), e)
         ELSE <<e>> \o sorted

RECURSIVE SortByScore(_)
SortByScore(entries) ==
    IF entries = <<>> THEN <<>>
    ELSE InsertByScore(SortByScore(SubSeq(entries, 1, Len(entries) - 1)),
                       entries[Len(entries)])

\* potentialMentors.map(...).filter(Boolean)
EligibleMentors(uexp, subjects) ==
    LET Eligible(u) == IsPotentialMentor(u, subjects) /\ CanMentor(u, uexp, subjects)
        kept == SelectSeq(AllUsers, Eligible)
    IN  [i \in 1..Len(kept) |-> ScoredMentor(kept[i], uexp, subjects)]

\* router.get('/recommendations') of the mentors router
MentorRecommendations(subjectsParam, limitParam) ==
    LET subjects == SearchSubjects(subjectsParam)
        limit == IF limitParam = <<>> THEN DefaultMentorLimit ELSE limitParam[1]
        ranked == SortByScore(EligibleMentors(expertise, subjects))
    IN  /\ IF Len(subjects) = 0
           THEN res' = [route |-> "GET /api/mentors/recommendations", status |-> 200,
                        mentors |-> <<>>, searchSubjects |-> subjects, limit |-> limit,
                        at |-> now, message |-> "No subjects specified for mentor search"]
           ELSE res' = [route |-> "GET /api/mentors/recommendations", status |-> 200,
                        mentors |-> SubSeq(ranked, 1, Min(Len(ranked), limit)),
                        searchSubjects |-> subjects, limit |-> limit,
                        at |-> now, message |-> NoValue]
        /\ UNCHANGED <<browser, enrollment, quizDb, analyses, expertise, userQuizzes, userCourses, statistics,
                       achievements, interests, mentors, now>>

\* Time passes, up to a limit.
Tick(limit) ==
    /\ now < limit
    /\ now' = now + 1
    /\ UNCHANGED <<browser, enrollment, res, quizDb, analyses, expertise, userQuizzes, userCourses,
                   statistics, achievements, interests, mentors>>

AdvanceClock == Tick(MaxClock)

InitMentor ==
    /\ res = NoResponse
    /\ BrowserClosed
    /\ enrollment = NoEnrollments
    /\ quizDb = <<>>
    /\ analyses = <<>>
    /\ expertise \in {<<>>, <<[subject |-> "math", level |-> Lv(3)]>>}
    /\ userQuizzes = <<>>
    /\ userCourses = <<>>
    /\ statistics = DefaultStatistics
    /\ achievements = <<>>
    /\ interests = {}
    /\ mentors \in UNION {[1..n -> CandidateProfiles] : n \in 0..MaxMentors}
    /\ now = 0

NextMentor ==
    \/ \E sp \in SubjectsInputs, lp \in LimitInputs : MentorRecommendations(sp, lp)
    \/ AdvanceClock

SpecMentor == InitMentor /\ [][NextMentor]_vars

IsMentorResponse == res.route = "GET /api/mentors/recommendations"

\* The candidate a response entry was computed from (res.at is the time the
\* response was computed at).
Candidate(e) == AllUsers[e.id + 1]

\* The three contributions the glossary names, for a response entry.
GapOf(e) == GapScore(Candidate(e), expertise, res.searchSubjects)
ActivityOf(e) == ActivityBonus(Candidate(e), res.at)
CoursesOf(e) == CourseBonus(Candidate(e))

\* C3 as stated: the score is the sum of an expertise-gap, an activity-recency
\* and a course-completion contribution, so two returned candidates that agree on
\* these three have the same score.
C3_ScoreFromThreeContributions ==
    IsMentorResponse =>
        \A i, j \in 1..Len(res.mentors) :
            (/\ GapOf(res.mentors[i]) = GapOf(res.mentors[j])
             /\ ActivityOf(res.mentors[i]) = ActivityOf(res.mentors[j])
             /\ CoursesOf(res.mentors[i]) = CoursesOf(res.mentors[j]))
            => res.mentors[i].score = res.mentors[j].score

\* The sum of all six terms of the handler for a response entry, as numerator
\* over the denominator LevelScale * (number of expertise entries).
SixTermNumerator(e) ==
    LET m == Candidate(e)
        n == Len(m.expertise)
    IN  GapOf(e) * n
        + (ActivityOf(e) + CoursesOf(e) + Min(m.averageQuizScore, 100) + m.longestStreak)
            * LevelScale * n
        + 5 * LevelSum(m.expertise)

\* C3 amended: the score of every returned candidate is the rounded sum of six
\* contributions (expertise gap, activity recency, 2 per completed course, the
\* average quiz score capped at 100, the longest streak, 5 times the mean
\* expertise level), and two returned candidates that agree on all six have the
\* same score.
C3_ScoreFromSixContributions ==
    IsMentorResponse =>
        /\ \A i \in 1..Len(res.mentors) :
              res.mentors[i].score =
                  RoundDiv(SixTermNumerator(res.mentors[i]),
                           LevelScale * Len(Candidate(res.mentors[i]).expertise))
        /\ \A i, j \in 1..Len(res.mentors) :
              (/\ GapOf(res.mentors[i]) = GapOf(res.mentors[j])
               /\ ActivityOf(res.mentors[i]) = ActivityOf(res.mentors[j])
               /\ CoursesOf(res.mentors[i]) = CoursesOf(res.mentors[j])
               /\ Min(Candidate(res.mentors[i]).averageQuizScore, 100)
                    = Min(Candidate(res.mentors[j]).averageQuizScore, 100)
               /\ Candidate(res.mentors[i]).longestStreak
                    = Candidate(res.mentors[j]).longestStreak
               /\ LevelSum(Candidate(res.mentors[i]).expertise)
                    * Len(Candidate(res.mentors[j]).expertise)
                    = LevelSum(Candidate(res.mentors[j]).expertise)
                        * Len(Candidate(res.mentors[i]).expertise))
              => res.mentors[i].score = res.mentors[j].score

\* Two different candidates are returned that agree on all six contributions.
C3_Witness ==
    /\ IsMentorResponse
    /\ Len(res.mentors) = 2
    /\ mentors[res.mentors[1].id] # mentors[res.mentors[2].id]
    /\ SixTermNumerator(res.mentors[1]) = SixTermNumerator(res.mentors[2])
    /\ Len(Candidate(res.mentors[1]).expertise) = Len(Candidate(res.mentors[2]).expertise)

\* The _ids of the response's entries.
ReturnedIds == {res.mentors[i].id : i \in 1..Len(res.mentors)}

\* The verified users with role mentor or student other than the requester.
VerifiedOthers ==
    {i \in 1..Len(mentors) : mentors[i].isEmailVerified /\ mentors[i].role \in {"mentor", "student"}}

\* The requester's level in a subject, 0 without an entry.
RequesterLevel(subject) ==
    IF \E k \in 1..Len(expertise) : expertise[k].subject = subject
    THEN expertise[CHOOSE k \in 1..Len(expertise) : expertise[k].subject = subject].level
    ELSE 0

\* For at least one searched subject the candidate's level is 2 to 6 levels above
\* the requester's.
WithinGap(i) ==
    \E s \in Range(res.searchSubjects) :
        \E k \in 1..Len(mentors[i].expertise) :
            /\ mentors[i].expertise[k].subject = s
            /\ mentors[i].expertise[k].level - RequesterLevel(s) >= 2 * LevelScale
            /\ mentors[i].expertise[k].level - RequesterLevel(s) <= 6 * LevelScale

GapCandidates == {i \in VerifiedOthers : WithinGap(i)}

\* C11: among the verified users with role mentor or student other than the
\* requester, a candidate is returned by GET /api/mentors/recommendations (before
\* truncation to the limit) if and only if, for at least one searched subject, its
\* level minus the requester's level in that subject (0 without an entry) is at
\* least 2 and at most 6.
C11_ReturnedIffWithinGap ==
    IsMentorResponse =>
        /\ ReturnedIds \subseteq GapCandidates
        /\ Len(res.mentors) = Min(Cardinality(GapCandidates), res.limit)
        /\ Cardinality(ReturnedIds) = Len(res.mentors)

\* A candidate within the gap is returned while another verified candidate that
\* holds a searched subject outside the gap is left out, the limit not reached.
C11_Witness ==
    /\ IsMentorResponse
    /\ Len(res.mentors) = 1
    /\ res.limit > 1
    /\ \E i \in VerifiedOthers :
          /\ i \notin ReturnedIds
          /\ \E k \in 1..Len(mentors[i].expertise) :
                mentors[i].expertise[k].subject \in Range(res.searchSubjects)

\* The score the handler gives user i for the request of the response.
ScoreOfUser(i) ==
    RoundDiv(SixTermNumerator([id |-> i]), LevelScale * Len(mentors[i].expertise))

\* C12: GET /api/mentors/recommendations returns the eligible candidates in order
\* of non-increasing score, truncated to the first `limit` entries (default 5),
\* and never includes the requesting user or a user whose email is not verified.
C12_RankedTruncatedAndFiltered ==
    IsMentorResponse =>
        /\ \A i \in 1..(Len(res.mentors) - 1) :
              res.mentors[i].score >= res.mentors[i + 1].score
        /\ Len(res.mentors) = Min(Cardinality(GapCandidates), res.limit)
        /\ \A i \in 1..Len(res.mentors) :
              /\ res.mentors[i].id \in GapCandidates
              /\ res.mentors[i].score = ScoreOfUser(res.mentors[i].id)
              /\ \A j \in GapCandidates \ ReturnedIds :
                    ScoreOfUser(j) <= res.mentors[i].score
        /\ 0 \notin ReturnedIds
        /\ \A i \in ReturnedIds : mentors[i].isEmailVerified
        /\ res.limit \in {DefaultMentorLimit} \cup {lp[1] : lp \in LimitInputs \ {<<>>}}

\* A limit of 1 cuts off the lower-scored of two eligible candidates, which
\* comes first in the collection.
C12_Witness ==
    /\ IsMentorResponse
    /\ res.limit = 1
    /\ Cardinality(GapCandidates) = 2
    /\ Len(res.mentors) = 1
    /\ res.mentors[1].id = 2
    /\ ScoreOfUser(1) < ScoreOfUser(2)

\* The default limit applies and the higher-scored candidate, second in the
\* collection, is ranked first.
DefaultLimitRanks ==
    /\ IsMentorResponse
    /\ res.limit = DefaultMentorLimit
    /\ Len(res.mentors) = 2
    /\ res.mentors[1].id = 2
    /\ res.mentors[1].score > res.mentors[2].score

----------------------------------------------------------------------------
(* JavaScript Number arithmetic of Quiz.calculateScore                      *)
(*   Math.round((earnedPoints / totalPoints) * 100)                         *)
(* The division and the multiplication each round to the nearest IEEE 754   *)
(* double (53 significant bits, ties to even).  A double in (0, 128) is     *)
(* kept as three limbs of its significand: the value is                     *)
(*   (hi * 2^36 + mid * 2^18 + lo) * 2^-(53 + z).                           *)

TopLimb == 2^17
Limb == 2^18

\* The number of doublings that bring e / t (0 < e < t) into [1/2, 1).
RECURSIVE LeadingZeros(_, _)
LeadingZeros(e, t) == IF 2 * e >= t THEN 0 ELSE 1 + LeadingZeros(2 * e, t)

\* fl(e / t) for 0 < e < t: long division to 53 bits, then round on the remainder.
DoubleQuotient(e, t) ==
    LET z == LeadingZeros(e, t)
        r0 == e * 2^z
        d1 == (r0 * TopLimb) \div t
        r1 == (r0 * TopLimb) % t
        d2 == (r1 * Limb) \div t
        r2 == (r1 * Limb) % t
        d3 == (r2 * Limb) \div t
        r3 == (r2 * Limb) % t
        up == 2 * r3 > t \/ (2 * r3 = t /\ d3 % 2 = 1)
        n3 == d3 + (IF up THEN 1 ELSE 0)
        n2 == d2 + n3 \div Limb
    IN  [hi |-> d1 + n2 \div Limb, mid |-> n2 % Limb, lo |-> n3 % Limb, z |-> z]

\* fl(x * 100) for a double x in [1/2^z+1, 1/2^z): the exact product has 59 or 60
\* bits, of which the lowest 6 or 7 are rounded away.
DoubleTimes100(x) ==
    LET p3 == x.lo * 100
        p2 == x.mid * 100 + p3 \div Limb
        p1 == x.hi * 100 + p2 \div Limb
        l3 == p3 % Limb
        l2 == p2 % Limb
        k == IF p1 >= 2^23 THEN 7 ELSE 6
        dropped == l3 % 2^k
        half == 2^(k - 1)
        up == dropped > half \/ (dropped = half /\ (l3 \div 2^k) % 2 = 1)
        m3 == l3 - dropped + (IF up THEN 2^k ELSE 0)
        m2 == l2 + m3 \div Limb
    IN  [hi |-> p1 + m2 \div Limb, mid |-> m2 % Limb, lo |-> m3 % Limb, z |-> x.z]

\* Math.round(x): the integer part, plus 1 when the first fraction bit is set.
MathRound(x) ==
    (x.hi \div 2^(17 + x.z)) + ((x.hi \div 2^(16 + x.z)) % 2)

\* Math.round((earnedPoints / totalPoints) * 100) for 0 <= earned <= total, total > 0
JsPercentage(earned, total) ==
    IF earned = 0 THEN 0
    ELSE IF earned = total THEN 100
    ELSE MathRound(DoubleTimes100(DoubleQuotient(earned, total)))

----------------------------------------------------------------------------
(* Quiz.calculateScore (quizSchema.methods.calculateScore)                  *)

\* Bound on the number of questions of the quizzes scored.
MaxQuestions == 2

\* question.points of the questions scored (Number, default 1).
PointInputs == {0, 1, 17, 23}

PassingScoreInputs == {0, 58, 70}

\* An element of req.body.answers as JSON carries it: a string, a number, or
\* nothing (undefined: the array is shorter, or holds null at that index).
AnswerInputs ==
    {[kind |-> "undefined", v |-> ""],
     [kind |-> "string", v |-> ""],
     [kind |-> "string", v |-> "A"],
     [kind |-> "string", v |-> "B"],
     [kind |-> "string", v |-> " Paris "],
     [kind |-> "number", v |-> "0"],
     [kind |-> "number", v |-> "7"]}

\* JavaScript truthiness of an answer: undefined, "" and 0 are falsy.
Truthy(a) ==
    CASE a.kind = "undefined" -> FALSE
      [] a.kind = "string" -> a.v # ""
      [] a.kind = "number" -> a.v # "0"

\* s.toLowerCase().trim() on the strings of the model
LowerTrim(s) ==
    CASE s \in {"Paris", " Paris ", "paris"} -> "paris"
      [] s = "A" -> "a"
      [] s = "B" -> "b"
      [] OTHER -> s

\* answers[index] (index counted from 1 here): undefined past the end
AnswerAt(answers, i) ==
    IF i <= Len(answers) THEN answers[i] ELSE [kind |-> "undefined", v |-> ""]

\* question.options.find(opt => opt.isCorrect): the first correct option, if any
CorrectOptions(q) == {i \in 1..Len(q.options) : q.options[i].isCorrect}

HasCorrectOption(q) == CorrectOptions(q) # {}

CorrectOptionText(q) ==
    q.options[CHOOSE i \in CorrectOptions(q) : \A j \in CorrectOptions(q) : i <= j].text

\* The body of the forEach callback for one question: the answer is counted as
\* correct, is not counted, or the comparison throws a TypeError
\* (toLowerCase of a value that is not a string, or of an absent correctAnswer).
QuestionOutcome(q, a) ==
    IF q.type \in {"multiple-choice", "true-false"}
    THEN IF HasCorrectOption(q) /\ a.kind = "string" /\ a.v = CorrectOptionText(q)
         THEN "correct" ELSE "wrong"
    ELSE IF q.type = "short-answer"
    THEN IF ~Truthy(a) THEN "wrong"
         ELSE IF a.kind # "string" THEN "throws"
         ELSE IF q.correctAnswer = NoValue THEN "throws"
         ELSE IF LowerTrim(a.v) = LowerTrim(q.correctAnswer) THEN "correct"
         ELSE "wrong"
    ELSE "wrong"

\* virtual totalPoints / the totalPoints accumulator
TotalPoints(quiz) ==
    SumSeq([i \in 1..Len(quiz.questions) |-> quiz.questions[i].points])

EarnedPoints(quiz, answers) ==
    SumSeq([i \in 1..Len(quiz.questions) |->
              IF QuestionOutcome(quiz.questions[i], AnswerAt(answers, i)) = "correct"
              THEN quiz.questions[i].points ELSE 0])

CorrectAnswers(quiz, answers) ==
    Cardinality({i \in 1..Len(quiz.questions) :
                   QuestionOutcome(quiz.questions[i], AnswerAt(answers, i)) = "correct"})

ScoreThrows(quiz, answers) ==
    \E i \in 1..Len(quiz.questions) :
        QuestionOutcome(quiz.questions[i], AnswerAt(answers, i)) = "throws"

\* quizSchema.methods.calculateScore
CalculateScore(quiz, answers) ==
    LET totalPoints == TotalPoints(quiz)
        earnedPoints == EarnedPoints(quiz, answers)
        percentage == IF totalPoints > 0 THEN JsPercentage(earnedPoints, totalPoints)
                      ELSE 0
    IN  IF ScoreThrows(quiz, answers)
        THEN [threw |-> TRUE]
        ELSE [threw |-> FALSE,
              score |-> percentage,
              correctAnswers |-> CorrectAnswers(quiz, answers),
              totalQuestions |-> Len(quiz.questions),
              earnedPoints |-> earnedPoints,
              totalPoints |-> totalPoints,
              passed |-> percentage >= quiz.passingScore]

\* All sequences over S of length at most n.
SeqsUpTo(S, n) == UNION {[1..k -> S] : k \in 0..n}

\* The questions of the quizzes scored: the shapes the Quiz schema stores
\* (options and correctAnswer are optional, points is any Number).
ChoiceQuestion(points, firstIsCorrect) ==
    [type |-> "multiple-choice",
     options |-> <<[text |-> "A", isCorrect |-> firstIsCorrect],
                   [text |-> "B", isCorrect |-> FALSE]>>,
     correctAnswer |-> NoValue, explanation |-> "because",
     difficulty |-> "medium", points |-> points]

TextQuestion(type, points, correctAnswer) ==
    [type |-> type, options |-> <<>>,
     correctAnswer |-> correctAnswer, explanation |-> "because",
     difficulty |-> "medium", points |-> points]

ScoreQuestions ==
    {ChoiceQuestion(p, TRUE) : p \in PointInputs}
    \cup {ChoiceQuestion(1, FALSE)}
    \cup {TextQuestion("short-answer", p, "Paris") : p \in PointInputs}
    \cup {TextQuestion("short-answer", 1, NoValue), TextQuestion("essay", 1, NoValue)}

ScoreQuizzes ==
    {[GeneratedQuiz("algebra", "medium", qs) EXCEPT !.passingScore = ps] :
        qs \in SeqsUpTo(ScoreQuestions, MaxQuestions), ps \in PassingScoreInputs}

\* quiz.calculateScore(answers) applied, once, to the stored quiz
ApplyCalculateScore(answers) ==
    /\ res = NoResponse
    /\ res' = [route |-> "Quiz.calculateScore", status |-> 0, answers |-> answers,
               result |-> CalculateScore(quizDb[1], answers)]
    /\ UNCHANGED <<browser, enrollment, quizDb, analyses, expertise, userQuizzes, userCourses, statistics,
                   achievements, interests, mentors, now>>

InitScore ==
    /\ res = NoResponse
    /\ BrowserClosed
    /\ enrollment = NoEnrollments
    /\ quizDb \in {<<quiz>> : quiz \in ScoreQuizzes}
    /\ analyses = <<>>
    /\ expertise = <<>>
    /\ userQuizzes = <<>>
    /\ userCourses = <<>>
    /\ statistics = DefaultStatistics
    /\ achievements = <<>>
    /\ interests = {}
    /\ mentors = <<>>
    /\ now = 0

NextScore == \E answers \in SeqsUpTo(AnswerInputs, MaxQuestions) : ApplyCalculateScore(answers)

SpecScore == InitScore /\ [][NextScore]_vars

IsScoreResult == res.route = "Quiz.calculateScore"

PositivePoints(quiz) == \A i \in 1..Len(quiz.questions) : quiz.questions[i].points > 0

\* C4: for every quiz and every answers array calculateScore returns
\* score = round(100 * earnedPoints / totalPoints), 0 when totalPoints is 0,
\* with totalPoints the sum of all points and earnedPoints the sum of the points
\* of the questions answered correctly; with positive points the score is in
\* 0..100; passed is true exactly when score >= passingScore.
C4_ScoreIsRoundedPercentage ==
    IsScoreResult =>
        LET quiz == quizDb[1]
            total == TotalPoints(quiz)
            earned == EarnedPoints(quiz, res.answers)
            r == res.result
        IN  /\ ~r.threw
            /\ r.totalPoints = total
            /\ r.earnedPoints = earned
            /\ r.score = IF total = 0 THEN 0 ELSE RoundDiv(100 * earned, total)
            /\ PositivePoints(quiz) => r.score \in 0..100
            /\ r.passed <=> r.score >= quiz.passingScore

\* What does hold of calculateScore whenever it returns: the score is within
\* 0..100 and at most one away from the rounded exact percentage, and passed
\* compares it with passingScore.
ScoreWhenReturned ==
    (IsScoreResult /\ ~res.result.threw) =>
        LET r == res.result
            exact == IF r.totalPoints = 0 THEN 0
                     ELSE RoundDiv(100 * r.earnedPoints, r.totalPoints)
        IN  /\ r.score \in 0..100
            /\ r.score \in {exact - 1, exact}
            /\ r.passed <=> r.score >= quizDb[1].passingScore

\* The rounding alone: the score of a returned result is the exact percentage
\* rounded to the nearest integer (violated: 23 of 40 points gives 57, not 58).
ScoreIsExactRounding ==
    (IsScoreResult /\ ~res.result.threw /\ res.result.totalPoints > 0) =>
        res.result.score = RoundDiv(100 * res.result.earnedPoints, res.result.totalPoints)

----------------------------------------------------------------------------
(* The quiz routes: GET /api/quizzes, GET /api/quizzes/:id,                 *)
(* POST /api/quizzes/:id/submit                                             *)

\* Bound on the attempts the requester records in a run.
MaxSubmissions == 3

\* Default of req.query.limit in the listing.
DefaultPageLimit == 12

\* user.quizzes.filter(attempt => attempt.quizId.toString() === quiz._id.toString())
AttemptsOf(attempts, id) ==
    LET OnQuiz(a) == a.quizId = id
    IN  SelectSeq(attempts, OnQuiz)

\* Math.max(...attempts.map(a => a.score)) of a non-empty list of attempts
RECURSIVE BestScore(_)
BestScore(attempts) ==
    IF Len(attempts) = 1 THEN attempts[1].score
    ELSE Max(attempts[1].score, BestScore(Tail(attempts)))

\* quiz.maxAttempts ? userAttempts.length < quiz.maxAttempts : true
\* (null and 0 are both falsy)
CanAttempt(quiz, attempts) ==
    IF quiz.hasMaxAttempts /\ quiz.maxAttempts # 0
    THEN Len(attempts) < quiz.maxAttempts ELSE TRUE

\* The fields the handlers add to a quiz for an authenticated requester.
AttemptFields(quiz, id) ==
    LET attempts == AttemptsOf(userQuizzes, id)
    IN  [userAttempts |-> Len(attempts),
         hasBestScore |-> Len(attempts) > 0,
         bestScore |-> IF Len(attempts) > 0 THEN BestScore(attempts) ELSE 0,
         canAttempt |-> CanAttempt(quiz, attempts)]

\* The filter { status: 'published', isPublic: true }
IsPublished(quiz) == quiz.status = "published" /\ quiz.isPublic

\* .select('-questions.correctAnswer -questions.explanation'): every other path
\* of a question, its options with their isCorrect included, stays in the result.
ListedQuestion(q) == [f \in DOMAIN q \ {"correctAnswer", "explanation"} |-> q[f]]

ListedQuiz(id, authed) ==
    LET quiz == quizDb[id]
        doc == [id |-> id] @@
               [quiz EXCEPT !.questions =
                    [i \in 1..Len(quiz.questions) |-> ListedQuestion(quiz.questions[i])]]
    IN  IF authed THEN [userAttempts |-> AttemptFields(quiz, id).userAttempts,
                        hasBestScore |-> AttemptFields(quiz, id).hasBestScore,
                        bestScore |-> AttemptFields(quiz, id).bestScore] @@ doc
        ELSE doc

\* The ids find(filter).sort({createdAt: -1}).skip(0).limit(12) returns: the
\* published public quizzes, newest first.
RECURSIVE NewestFirst(_)
NewestFirst(n) ==
    IF n = 0 THEN <<>>
    ELSE (IF IsPublished(quizDb[n]) THEN <<n>> ELSE <<>>) \o NewestFirst(n - 1)

FirstPage(ids) == SubSeq(ids, 1, Min(Len(ids), DefaultPageLimit))

\* router.get('/') with the default query
ListQuizzes(authed) ==
    LET ids == FirstPage(NewestFirst(Len(quizDb)))
    IN  /\ res' = [route |-> "GET /api/quizzes", status |-> 200,
                   quizzes |-> [i \in 1..Len(ids) |-> ListedQuiz(ids[i], authed)],
                   total |-> Len(NewestFirst(Len(quizDb)))]
        /\ UNCHANGED <<browser, enrollment, quizDb, analyses, expertise, userQuizzes, userCourses, statistics,
                       achievements, interests, mentors, now>>

\* quizForUser: the quiz with every question rebuilt from the listed fields only
QuestionForUser(q) ==
    [type |-> q.type,
     options |-> [j \in 1..Len(q.options) |-> [text |-> q.options[j].text]],
     difficulty |-> q.difficulty,
     points |-> q.points]

QuizForUser(id, authed) ==
    LET quiz == quizDb[id]
        doc == [id |-> id] @@
               [quiz EXCEPT !.questions =
                    [i \in 1..Len(quiz.questions) |-> QuestionForUser(quiz.questions[i])]]
    IN  IF authed THEN AttemptFields(quiz, id) @@ doc ELSE doc

QuizError(route, status, id, error) ==
    [route |-> route, status |-> status, quizId |-> id, error |-> error]

\* router.get('/:id')
GetQuiz(id, authed) ==
    /\ res' = IF id \in 1..Len(quizDb) /\ IsPublished(quizDb[id])
              THEN [route |-> "GET /api/quizzes/:id", status |-> 200, quizId |-> id,
                    quiz |-> QuizForUser(id, authed)]
              ELSE QuizError("GET /api/quizzes/:id", 404, id, "Quiz not found")
    /\ UNCHANGED <<browser, enrollment, quizDb, analyses, expertise, userQuizzes, userCourses, statistics,
                   achievements, interests, mentors, now>>

\* quizSchema.methods.updateStatistics
UpdateStatistics(quiz, score, timeSpent, passed) ==
    LET attempts == quiz.statistics.totalAttempts + 1
        old == quiz.statistics
    IN  [quiz EXCEPT !.statistics =
            [totalAttempts |-> attempts,
             averageScore |-> RoundDiv(old.averageScore * (attempts - 1) + score, attempts),
             averageTimeSpent |->
                 RoundDiv(old.averageTimeSpent * (attempts - 1) + timeSpent, attempts),
             passRate |->
                 RoundDiv(old.passRate * (attempts - 1) + (IF passed THEN 100 ELSE 0),
                          attempts)]]

\* One element of detailedResults.  `x?.toLowerCase().trim()` is undefined for an
\* undefined x, and undefined === undefined.
OptionalLowerTrim(present, s) == IF present THEN LowerTrim(s) ELSE NoValue

DetailedResult(q, a) ==
    [correctAnswer |->
        IF q.type \in {"multiple-choice", "true-false"}
        THEN (IF HasCorrectOption(q) THEN CorrectOptionText(q) ELSE NoValue)
        ELSE q.correctAnswer,
     isCorrect |->
        IF q.type \in {"multiple-choice", "true-false"}
        THEN (IF HasCorrectOption(q)
              THEN a.kind = "string" /\ a.v = CorrectOptionText(q)
              ELSE a.kind = "undefined")
        ELSE OptionalLowerTrim(a.kind # "undefined", a.v)
               = OptionalLowerTrim(q.correctAnswer # NoValue, q.correctAnswer),
     explanation |-> q.explanation,
     points |-> q.points]

\* answers[index]?.toLowerCase() throws for an answer that is neither a string
\* nor undefined, on a question that is not multiple-choice or true-false.
DetailedResultsThrow(quiz, answers) ==
    \E i \in 1..Len(quiz.questions) :
        /\ quiz.questions[i].type \notin {"multiple-choice", "true-false"}
        /\ AnswerAt(answers, i).kind = "number"

\* quiz.maxAttempts && userAttempts.length >= quiz.maxAttempts
AttemptLimitReached(quiz, attempts) ==
    quiz.hasMaxAttempts /\ quiz.maxAttempts # 0 /\ Len(attempts) >= quiz.maxAttempts

\* The achievements the handler adds for an attempt.
QuizAchievements(result) ==
    (IF result.passed THEN <<"Quiz Passed">> ELSE <<>>)
    \o (IF result.score = 100 THEN <<"Perfect Score">> ELSE <<>>)

\* req.body.answers: absent / not an array, or an array of answers.
AnswersInputs ==
    LET A == [kind |-> "string", v |-> "A"]
        B == [kind |-> "string", v |-> "B"]
    IN  {[isArray |-> FALSE, items |-> <<>>]}
        \cup {[isArray |-> TRUE, items |-> items] :
                 items \in {<<>>, <<A>>, <<A, A>>, <<A, A, A>>, <<B>>,
                            <<[kind |-> "string", v |-> " Paris "]>>,
                            <<[kind |-> "number", v |-> "0"]>>,
                            <<[kind |-> "number", v |-> "7"]>>}}

\* router.post('/:id/submit'), for a request that leaves timeSpent out
SubmitQuiz(id, body) ==
    LET route == "POST /api/quizzes/:id/submit"
        quiz == quizDb[id]
        answers == body.items
        userAttempts == AttemptsOf(userQuizzes, id)
        result == CalculateScore(quiz, answers)
        totalQuizzes == statistics.totalQuizzesTaken + 1
        recorded ==
            /\ userQuizzes' = Append(userQuizzes,
                   [quizId |-> id, score |-> result.score, completedAt |-> now,
                    timeSpent |-> 0])
            /\ statistics' = [statistics EXCEPT
                   !.totalQuizzesTaken = totalQuizzes,
                   !.averageQuizScore =
                       RoundDiv(statistics.averageQuizScore * (totalQuizzes - 1)
                                  + result.score, totalQuizzes)]
            /\ quizDb' = [quizDb EXCEPT
                   ![id] = UpdateStatistics(quiz, result.score, 0, result.passed)]
            /\ achievements' = achievements \o QuizAchievements(result)
        nothing == UNCHANGED <<browser, enrollment, userQuizzes, statistics, quizDb, achievements>>
    IN  /\ Len(userQuizzes) < MaxSubmissions
        /\ IF ~body.isArray
           THEN res' = QuizError(route, 400, id, "Answers array is required") /\ nothing
           ELSE IF id \notin 1..Len(quizDb)
           THEN res' = QuizError(route, 404, id, "Quiz not found") /\ nothing
           ELSE IF AttemptLimitReached(quiz, userAttempts)
           THEN res' = QuizError(route, 403, id, "Maximum attempts reached for this quiz")
                /\ nothing
           ELSE IF result.threw
           THEN res' = QuizError(route, 500, id, "Failed to submit quiz") /\ nothing
           ELSE IF DetailedResultsThrow(quiz, answers)
           THEN res' = QuizError(route, 500, id, "Failed to submit quiz") /\ recorded
           ELSE /\ res' = [route |-> route, status |-> 200, quizId |-> id,
                           result |-> result,
                           detailsShown |-> quiz.showCorrectAnswers,
                           detailedResults |->
                               IF quiz.showCorrectAnswers
                               THEN [i \in 1..Len(quiz.questions) |->
                                       DetailedResult(quiz.questions[i], AnswerAt(answers, i))]
                               ELSE <<>>]
                /\ recorded
        /\ UNCHANGED <<browser, enrollment, analyses, expertise, userCourses, interests, mentors, now>>

\* The quizzes of the collection: a three-question multiple-choice quiz without
\* an attempt limit, and a one-question short-answer quiz with maxAttempts set.
ChoiceQuiz ==
    GeneratedQuiz("algebra", "medium",
        <<ChoiceQuestion(1, TRUE), ChoiceQuestion(1, TRUE), ChoiceQuestion(1, TRUE)>>)

TextQuiz(maxAttempts, showCorrectAnswers, status) ==
    [GeneratedQuiz("algebra", "medium", <<TextQuestion("short-answer", 1, "Paris")>>)
        EXCEPT !.hasMaxAttempts = TRUE, !.maxAttempts = maxAttempts,
               !.showCorrectAnswers = showCorrectAnswers, !.status = status]

MaxAttemptsInputs == {0, 1, 2}

InitQuiz ==
    /\ res = NoResponse
    /\ BrowserClosed
    /\ enrollment = NoEnrollments
    /\ quizDb \in {<<ChoiceQuiz, TextQuiz(m, show, status)>> :
                      m \in MaxAttemptsInputs, show \in BOOLEAN,
                      status \in {"published", "draft"}}
    /\ analyses = <<>>
    /\ expertise = <<>>
    /\ userQuizzes = <<>>
    /\ userCourses = <<>>
    /\ statistics = DefaultStatistics
    /\ achievements = <<>>
    /\ interests = {}
    /\ mentors = <<>>
    /\ now = 0

NextQuiz ==
    \/ \E authed \in BOOLEAN : ListQuizzes(authed)
    \/ \E id \in 1..(Len(quizDb) + 1), authed \in BOOLEAN : GetQuiz(id, authed)
    \/ \E id \in 1..(Len(quizDb) + 1), body \in AnswersInputs : SubmitQuiz(id, body)

SpecQuiz == InitQuiz /\ [][NextQuiz]_vars

SubmitRoute == "POST /api/quizzes/:id/submit"

AttemptScores == [i \in 1..Len(userQuizzes) |-> userQuizzes[i].score]

Abs(x) == IF x < 0 THEN -x ELSE x

\* C5: after any sequence of submissions processed one at a time,
\* user.statistics.averageQuizScore is the arithmetic mean of the scores of all
\* the recorded attempts, rounded to the nearest integer (it differs from the
\* mean by at most one half).
C5_AverageIsMeanOfAttempts ==
    (res.route = SubmitRoute /\ res.status = 200) =>
        2 * Abs(statistics.averageQuizScore * Len(userQuizzes) - SumSeq(AttemptScores))
            <= Len(userQuizzes)

\* What the handler does keep: totalQuizzesTaken counts the recorded attempts.
TotalQuizzesTakenCountsAttempts == statistics.totalQuizzesTaken = Len(userQuizzes)

\* C8: when a quiz has maxAttempts set, a submission by a user who already has
\* maxAttempts recorded attempts for it is answered 403 and records nothing, so
\* the number of attempts recorded for a quiz never exceeds its maxAttempts.
C8_AttemptsNeverExceedMaxAttempts ==
    /\ [](\A id \in 1..Len(quizDb) :
            quizDb[id].hasMaxAttempts =>
                Len(AttemptsOf(userQuizzes, id)) <= quizDb[id].maxAttempts)
    /\ [][\A id \in 1..Len(quizDb) :
            (/\ quizDb[id].hasMaxAttempts
             /\ Len(AttemptsOf(userQuizzes, id)) >= quizDb[id].maxAttempts
             /\ res'.route = SubmitRoute
             /\ res'.quizId = id
             /\ res'.status # 400)
            => (res'.status = 403
                /\ UNCHANGED <<browser, enrollment, userQuizzes, statistics, achievements, quizDb>>)]_vars

\* The limit is enforced for every quiz whose maxAttempts is a positive integer.
PositiveMaxAttemptsEnforced ==
    \A id \in 1..Len(quizDb) :
        (quizDb[id].hasMaxAttempts /\ quizDb[id].maxAttempts > 0) =>
            Len(AttemptsOf(userQuizzes, id)) <= quizDb[id].maxAttempts

\* A question as a response shows it discloses an answer: an option carries its
\* isCorrect flag, or the question its correctAnswer or its explanation.
QuestionDiscloses(q) ==
    \/ "correctAnswer" \in DOMAIN q
    \/ "explanation" \in DOMAIN q
    \/ \E j \in 1..Len(q.options) : "isCorrect" \in DOMAIN q.options[j]

QuizDiscloses(quiz) == \E i \in 1..Len(quiz.questions) : QuestionDiscloses(quiz.questions[i])

IsListing == res.route = "GET /api/quizzes" /\ res.status = 200

IsQuizPage == res.route = "GET /api/quizzes/:id" /\ res.status = 200

IsSubmission == res.route = SubmitRoute /\ res.status = 200

\* C9: the listing GET /api/quizzes hides the answers: for no question of any
\* listed quiz does the response disclose which option is correct, the correct
\* answer, or the explanation.
C9_ListingHidesAnswers ==
    IsListing => \A i \in 1..Len(res.quizzes) : ~QuizDiscloses(res.quizzes[i])

\* The two paths the select() of the listing does exclude are absent.
ListingOmitsCorrectAnswerAndExplanation ==
    IsListing =>
        \A i \in 1..Len(res.quizzes) : \A k \in 1..Len(res.quizzes[i].questions) :
            DOMAIN res.quizzes[i].questions[k] \cap {"correctAnswer", "explanation"} = {}

\* The response discloses answers of the quiz with this id.
ResponseDiscloses(id) ==
    \/ IsListing /\ \E i \in 1..Len(res.quizzes) :
                       res.quizzes[i].id = id /\ QuizDiscloses(res.quizzes[i])
    \/ IsQuizPage /\ res.quizId = id /\ QuizDiscloses(res.quiz)
    \/ IsSubmission /\ res.quizId = id /\ res.detailsShown /\ Len(res.detailedResults) > 0

\* C10: GET /api/quizzes/:id never discloses an option's isCorrect flag, the
\* correctAnswer or the explanation of a question; these are disclosed only in
\* the response to a submission, and only when settings.showCorrectAnswers is true.
C10_AnswersOnlyAfterSubmission ==
    /\ IsQuizPage => ~QuizDiscloses(res.quiz)
    /\ \A id \in 1..Len(quizDb) :
          ResponseDiscloses(id) => (IsSubmission /\ quizDb[id].showCorrectAnswers)

\* The two handlers C10 names do behave as it says: the quiz page discloses
\* nothing, and a submission discloses only when showCorrectAnswers is true.
QuizPageAndSubmissionHideAnswers ==
    /\ IsQuizPage => ~QuizDiscloses(res.quiz)
    /\ IsSubmission =>
          (res.detailsShown <=> quizDb[res.quizId].showCorrectAnswers)

----------------------------------------------------------------------------
(* GET /api/performance/dashboard                                           *)

\* Bound on the clock of the dashboard runs, in ticks.
MaxDashClock == 4

\* [...].sort((a, b) => b - a) on a list of dates
RECURSIVE InsertDesc(_, _)
InsertDesc(sorted, d) ==
    IF sorted = <<>> THEN <<d>>
    ELSE IF d > Head(sorted) THEN <<d>> \o sorted
    ELSE <<Head(sorted)>> \o InsertDesc(Tail(sorted), d)

RECURSIVE SortDesc(_)
SortDesc(dates) ==
    IF dates = <<>> THEN <<>> ELSE InsertDesc(SortDesc(Tail(dates)), Head(dates))

\* learningDates: the enrolment dates and the quiz completion dates, newest first
LearningDates ==
    SortDesc([i \in 1..Len(userCourses) |-> userCourses[i].enrolledAt]
             \o [i \in 1..Len(userQuizzes) |-> userQuizzes[i].completedAt])

\* The streak loop: count the dates while each is less than two days before the
\* date checked (daysDiff = Math.floor((checkDate - activityDate) / oneDay) <= 1).
RECURSIVE StreakFrom(_, _)
StreakFrom(dates, checkDate) ==
    IF dates = <<>> THEN 0
    ELSE IF (checkDate - Head(dates)) \div OneDay <= 1
         THEN 1 + StreakFrom(Tail(dates), Head(dates))
         ELSE 0

CoursesWithStatus(status) ==
    Cardinality({i \in 1..Len(userCourses) : userCourses[i].status = status})

AverageProgress ==
    IF Len(userCourses) > 0
    THEN RoundDiv(SumSeq([i \in 1..Len(userCourses) |-> userCourses[i].progress]),
                  Len(userCourses))
    ELSE 0

\* router.get('/dashboard').  (computedStreak keeps the handler's local
\* currentStreak next to the response.)  The user is read with .lean(), a plain object
\* without the document methods: when the streak computed is higher than the
\* stored longestStreak, `await user.save()` is a call of undefined, the
\* TypeError lands in the catch block, and nothing is stored.
Dashboard ==
    LET currentStreak == StreakFrom(LearningDates, now)
    IN  /\ res' = IF currentStreak > statistics.longestStreak
                  THEN [route |-> "GET /api/performance/dashboard", status |-> 500,
                        error |-> "Failed to fetch performance dashboard",
                        computedStreak |-> currentStreak]
                  ELSE [route |-> "GET /api/performance/dashboard", status |-> 200,
                        computedStreak |-> currentStreak,
                        overview |->
                          [totalCoursesEnrolled |-> Len(userCourses),
                           completedCourses |-> CoursesWithStatus("completed"),
                           inProgressCourses |-> CoursesWithStatus("enrolled"),
                           averageCourseProgress |-> AverageProgress,
                           totalQuizzesTaken |-> Len(userQuizzes),
                           averageQuizScore |-> statistics.averageQuizScore,
                           currentStreak |-> currentStreak,
                           longestStreak |-> statistics.longestStreak],
                        expertiseLevel |-> OverallExpertise(expertise)]
        /\ UNCHANGED <<browser, enrollment, quizDb, analyses, expertise, userQuizzes, userCourses, statistics,
                       achievements, interests, mentors, now>>

\* user.courses entry pushed by POST /api/courses/:id/enroll at time `at`
Enrollment(courseId, at) ==
    [courseId |-> courseId, enrolledAt |-> at, progress |-> 0, status |-> "enrolled"]

InitDash ==
    /\ res = NoResponse
    /\ BrowserClosed
    /\ enrollment = NoEnrollments
    /\ quizDb = <<ChoiceQuiz>>
    /\ analyses = <<>>
    /\ expertise = <<>>
    /\ userQuizzes = <<>>
    /\ userCourses \in {<<>>, <<Enrollment(1, 0)>>}
    /\ statistics = DefaultStatistics
    /\ achievements = <<>>
    /\ interests = {}
    /\ mentors = <<>>
    /\ now = 0

NextDash ==
    \/ Dashboard
    \/ Tick(MaxDashClock)
    \/ \E body \in AnswersInputs : SubmitQuiz(1, body)

SpecDash == InitDash /\ [][NextDash]_vars

IsDashboard == res.route = "GET /api/performance/dashboard"

\* C6: GET /api/performance/dashboard answers every existing authenticated user
\* with the performance overview (status 200), including when the current
\* streak it computes is higher than the stored longestStreak, in which case it
\* stores the new longestStreak and currentStreak on the user.
C6_DashboardAnswersAndStoresStreak ==
    IsDashboard =>
        /\ res.status = 200
        /\ res.computedStreak <= statistics.longestStreak
        /\ res.computedStreak > 0 => statistics.currentStreak > 0

\* What the handler does: it answers 200 exactly when the streak it computes is
\* not higher than the stored longestStreak, and it never stores a streak.
DashboardFailsOnNewStreak ==
    /\ IsDashboard => (res.status = 200 <=> res.computedStreak <= statistics.longestStreak)
    /\ statistics.longestStreak = 0
    /\ statistics.currentStreak = 0

----------------------------------------------------------------------------
(* The profiles router: its routes in the order they are registered, and    *)
(* the handlers of its GET routes                                           *)

\* router.METHOD(path, ...) calls of the profiles router, in source order.
ProfileRouter ==
    <<[method |-> "GET", pattern |-> <<":id">>, handler |-> "GET /api/profiles/:id"],
      [method |-> "PUT", pattern |-> <<"me">>, handler |-> "PUT /api/profiles/me"],
      [method |-> "POST", pattern |-> <<"me", "avatar">>,
       handler |-> "POST /api/profiles/me/avatar"],
      [method |-> "POST", pattern |-> <<"me", "expertise">>,
       handler |-> "POST /api/profiles/me/expertise"],
      [method |-> "DELETE", pattern |-> <<"me", "expertise", ":subject">>,
       handler |-> "DELETE /api/profiles/me/expertise/:subject"],
      [method |-> "GET", pattern |-> <<"suggestions">>,
       handler |-> "GET /api/profiles/suggestions"],
      [method |-> "GET", pattern |-> <<"search">>, handler |-> "GET /api/profiles/search"]>>

\* A pattern segment that is a route parameter matches any path segment.
IsParam(segment) == segment \in {":id", ":subject"}

LayerMatches(layer, method, path) ==
    /\ layer.method = method
    /\ Len(layer.pattern) = Len(path)
    /\ \A i \in 1..Len(path) : IsParam(layer.pattern[i]) \/ layer.pattern[i] = path[i]

\* Express tries the layers in the order they were registered and runs the
\* first that matches; none of these handlers calls next().  0: no layer matches.
Route(method, path) ==
    LET matching == {k \in 1..Len(ProfileRouter) : LayerMatches(ProfileRouter[k], method, path)}
    IN  IF matching = {} THEN 0
        ELSE CHOOSE k \in matching : \A j \in matching : k <= j

\* The strings Mongoose casts to an ObjectId (they stand for 24-digit hex
\* strings) and the _id of the User collection each one is: the requester, the
\* other users by index, and an id no user has.
ObjectIdInputs == {"u0", "u1", "u2", "u9"}

UserIndex(id) == CASE id = "u0" -> 0 [] id = "u1" -> 1 [] id = "u2" -> 2 [] OTHER -> 9

UserExists(id) == id \in ObjectIdInputs /\ UserIndex(id) \in 0..Len(mentors)

UserById(id) == AllUsers[UserIndex(id) + 1]

\* The stored document of a user: the fields the mentor search reads and the
\* private ones (every user has an email and a password hash; only the
\* requester's courses are kept in the state).
StoredUser(id) ==
    UserById(id) @@
    [email |-> [field |-> "email", of |-> id],
     password |-> [field |-> "password", of |-> id],
     learningGoals |-> <<[field |-> "learningGoals", of |-> id]>>,
     preferences |-> [difficultyLevel |-> "beginner", learningStyle |-> "visual",
                      pace |-> "normal"],
     courses |-> IF id = "u0" THEN userCourses ELSE <<>>]

\* User.findById(req.params.id).select('-password -email').lean()
SelectedUser(id) ==
    LET doc == StoredUser(id)
    IN  [f \in DOMAIN doc \ {"password", "email"} |-> doc[f]]

\* req.user of optionalAuth: undefined without a valid token, else a stored user
RequesterInputs == {NoValue, "u0", "u1", "u2"}

\* The test that lets every authenticated requester through.
SeesDetailsWhenAuthenticated(id, requester) == requester # NoValue

\* req.user && (req.user._id.toString() === user._id.toString() ||
\*              req.user.role === 'admin')
SeesDetails(id, requester) ==
    /\ requester # NoValue
    /\ requester = id \/ UserById(requester).role = "admin"

\* publicProfile.courses.details
CourseDetails(courses) ==
    [i \in 1..Len(courses) |->
        [courseId |-> courses[i].courseId,
         category |-> CourseCatalog[courses[i].courseId].category,
         progress |-> courses[i].progress, status |-> courses[i].status,
         enrolledAt |-> courses[i].enrolledAt]]

\* publicProfile of router.get('/:id') as res.json serialises it (a property that
\* is undefined is left out), for the user found and the requester given
ProfileFor(id, requester) ==
    LET user == SelectedUser(id)
        counts == [total |-> Len(user.courses),
                   completed |-> Cardinality({i \in 1..Len(user.courses) :
                                                 user.courses[i].status = "completed"}),
                   inProgress |-> Cardinality({i \in 1..Len(user.courses) :
                                                  user.courses[i].status = "enrolled"})]
        profile == [id |-> id, role |-> user.role, expertise |-> user.expertise,
                    statistics |->
                        [totalCoursesCompleted |-> user.totalCoursesCompleted,
                         averageQuizScore |-> user.averageQuizScore,
                         longestStreak |-> user.longestStreak],
                    overallExpertise |-> OverallExpertise(user.expertise),
                    courses |-> counts]
        details == [learningGoals |-> user.learningGoals,
                    preferences |-> user.preferences,
                    isEmailVerified |-> user.isEmailVerified,
                    courses |-> [details |-> CourseDetails(user.courses)] @@ counts]
        email == IF "email" \in DOMAIN user THEN [email |-> user.email]
                 ELSE [f \in {} |-> NoValue]
    IN  IF SeesDetails(id, requester) THEN email @@ details @@ profile ELSE profile

PublicProfile(id, authed) == ProfileFor(id, IF authed THEN "u0" ELSE NoValue)

\* router.get('/:id'): User.findById(req.params.id) rejects with a CastError for
\* a string that is no ObjectId, and the catch block answers 500.
GetProfileAs(path, requester) ==
    LET route == "GET /api/profiles/:id"
        id == path[1]
    IN  /\ requester # NoValue => UserExists(requester)
        /\ res' = IF id \notin ObjectIdInputs
                  THEN [route |-> route, status |-> 500, path |-> path,
                        requester |-> requester, error |-> "Failed to fetch profile"]
                  ELSE IF ~UserExists(id)
                  THEN [route |-> route, status |-> 404, path |-> path,
                        requester |-> requester, error |-> "User not found"]
                  ELSE [route |-> route, status |-> 200, path |-> path,
                        requester |-> requester, profile |-> ProfileFor(id, requester)]
        /\ UNCHANGED <<browser, enrollment, quizDb, analyses, expertise, userQuizzes,
                       userCourses, statistics, achievements, interests, mentors, now>>

GetPublicProfile(path, authed) == GetProfileAs(path, IF authed THEN "u0" ELSE NoValue)

\* The subjects a user has in common with the requester.
CommonSubjects(u) ==
    LET Shared(e) == \E i \in 1..Len(expertise) : expertise[i].subject = e.subject
    IN  SelectSeq(u.expertise, Shared)

\* router.get('/suggestions').  The other users of the model hold no interests,
\* and the selected fields leave lastActiveAt out, so that the activity bonus is
\* never added (a comparison with NaN): the score is 3 per common subject.
GetSuggestions(path) ==
    LET Similar(u) == u.id # 0 /\ u.isEmailVerified /\ Len(CommonSubjects(u)) > 0
        found == SelectSeq(AllUsers, Similar)
        limited == SubSeq(found, 1, Min(Len(found), 10))
        scored == [i \in 1..Len(limited) |->
                     [id |-> limited[i].id, score |-> 3 * Len(CommonSubjects(limited[i]))]]
        sorted == SortByScore(scored)
    IN  /\ res' = [route |-> "GET /api/profiles/suggestions", status |-> 200,
                   path |-> path,
                   suggestions |-> SubSeq(sorted, 1, Min(Len(sorted), 5))]
        /\ UNCHANGED <<browser, enrollment, quizDb, analyses, expertise, userQuizzes, userCourses, statistics,
                       achievements, interests, mentors, now>>

\* req.query.q of a search: left out, one character, or a text that the regex
\* finds in the names of the other users with the role given.
QueryInputs == {[present |-> FALSE, long |-> FALSE, role |-> NoValue],
                [present |-> TRUE, long |-> FALSE, role |-> NoValue],
                [present |-> TRUE, long |-> TRUE, role |-> "mentor"],
                [present |-> TRUE, long |-> TRUE, role |-> "student"]}

\* router.get('/search')
SearchUsers(path, q) ==
    LET route == "GET /api/profiles/search"
        Found(u) == u.id # 0 /\ u.isEmailVerified /\ u.role = q.role
        users == SelectSeq(AllUsers, Found)
    IN  /\ res' = IF ~q.present \/ ~q.long
                  THEN [route |-> route, status |-> 400, path |-> path,
                        error |-> "Search query must be at least 2 characters"]
                  ELSE [route |-> route, status |-> 200, path |-> path,
                        users |-> [i \in 1..Len(users) |->
                                     [id |-> users[i].id,
                                      overallExpertise |->
                                          OverallExpertise(users[i].expertise)]],
                        total |-> Len(users)]
        /\ UNCHANGED <<browser, enrollment, quizDb, analyses, expertise, userQuizzes, userCourses, statistics,
                       achievements, interests, mentors, now>>

\* router.post('/me/avatar'); user.avatar is not part of the model's state
UploadAvatar(hasAvatar) ==
    /\ res' = IF ~hasAvatar
              THEN [route |-> "POST /api/profiles/me/avatar", status |-> 400,
                    error |-> "Avatar URL is required"]
              ELSE [route |-> "POST /api/profiles/me/avatar", status |-> 200,
                    message |-> "Avatar updated successfully"]
    /\ UNCHANGED <<browser, enrollment, quizDb, analyses, expertise, userQuizzes, userCourses, statistics,
                   achievements, interests, mentors, now>>

\* No layer matches: the router passes the request on and the application
\* answers 404.
NoRoute(method, path) ==
    /\ res' = [route |-> "no route", status |-> 404, method |-> method, path |-> path]
    /\ UNCHANGED <<browser, enrollment, quizDb, analyses, expertise, userQuizzes, userCourses, statistics,
                   achievements, interests, mentors, now>>

\* The requests sent to /api/profiles: the calls of the frontend client
\* (api.profiles) and some that match no route.
RequestInputs ==
    {[method |-> "GET", path |-> <<id>>] : id \in ObjectIdInputs}
    \cup {[method |-> "GET", path |-> <<"suggestions">>],
          [method |-> "GET", path |-> <<"search">>],
          [method |-> "GET", path |-> <<"me", "expertise">>],
          [method |-> "PUT", path |-> <<"me">>],
          [method |-> "PUT", path |-> <<"suggestions">>],
          [method |-> "POST", path |-> <<"me", "avatar">>],
          [method |-> "POST", path |-> <<"me", "expertise">>],
          [method |-> "DELETE", path |-> <<"me", "expertise", "math">>],
          [method |-> "DELETE", path |-> <<"me", "expertise", "physics">>],
          [method |-> "DELETE", path |-> <<"me">>]}

\* One request to the profiles router: the first matching layer's handler runs.
ProfilesRequest(method, path, authed) ==
    LET k == Route(method, path)
    IN  CASE k = 0 -> NoRoute(method, path)
          [] k = 1 -> GetPublicProfile(path, authed)
          [] k = 2 -> \E body \in ProfileBodyInputs : PutMe(body)
          [] k = 3 -> \E hasAvatar \in BOOLEAN : UploadAvatar(hasAvatar)
          [] k = 4 -> \E subject \in Subjects \cup {NoValue}, l \in LevelInputs :
                         AddExpertise(subject, l)
          [] k = 5 -> RemoveExpertise(path[3])
          [] k = 6 -> GetSuggestions(path)
          [] k = 7 -> \E q \in QueryInputs : SearchUsers(path, q)

InitRoute ==
    /\ res = NoResponse
    /\ BrowserClosed
    /\ enrollment = NoEnrollments
    /\ quizDb = <<>>
    /\ analyses = <<>>
    /\ expertise \in {<<>>, <<[subject |-> "math", level |-> Lv(3)]>>}
    /\ userQuizzes = <<>>
    /\ userCourses = <<>>
    /\ statistics = DefaultStatistics
    /\ achievements = <<>>
    /\ interests = {}
    /\ mentors \in {<<>>, <<BaseCandidate>>}
    /\ now = 0

NextRoute ==
    \E r \in RequestInputs, authed \in BOOLEAN : ProfilesRequest(r.method, r.path, authed)

SpecRoute == InitRoute /\ [][NextRoute]_vars

ProfileGetHandlers ==
    {"GET /api/profiles/:id", "GET /api/profiles/suggestions", "GET /api/profiles/search"}

\* C7: a GET request to /api/profiles/suggestions is handled by the
\* profile-suggestions handler and a GET request to /api/profiles/search by the
\* user-search handler; neither is handled by the '/:id' public-profile handler.
C7_SuggestionsAndSearchReachTheirHandlers ==
    res.route \in ProfileGetHandlers =>
        /\ res.path = <<"suggestions">> => res.route = "GET /api/profiles/suggestions"
        /\ res.path = <<"search">> => res.route = "GET /api/profiles/search"

\* What the router does with them: the '/:id' layer, registered first, takes
\* every one-segment GET path, so the two later handlers never run.
SuggestionsAndSearchNeverRun ==
    /\ res.route \notin {"GET /api/profiles/suggestions", "GET /api/profiles/search"}
    /\ (res.route = "GET /api/profiles/:id" /\ res.path[1] \in {"suggestions", "search"})
          => res.status = 500

----------------------------------------------------------------------------
(* Courses router: POST /api/courses/:id/enroll, PATCH /api/courses/:id/progress *)

\* Bound on how far the clock advances in a run of the enrolment model.
MaxEnrollClock == 2

\* Bound on statistics.totalCoursesCompleted in a run.
MaxCompletions == 2

\* req.params.id: the _id of a stored course, a well-formed ObjectId no course
\* has (one past the collection), or a string that is no ObjectId (0).
MalformedId == 0
CourseIdInputs == CourseIds \cup {Len(CourseCatalog) + 1, MalformedId}

\* user.courses.find(c => c.courseId.toString() === course._id.toString()) and
\* the findIndex of the progress route: the first entry of the course, 0 if none
CourseIndex(id) ==
    IF \E i \in 1..Len(userCourses) : userCourses[i].courseId = id
    THEN CHOOSE i \in 1..Len(userCourses) :
            /\ userCourses[i].courseId = id
            /\ \A j \in 1..(i - 1) : userCourses[j].courseId # id
    ELSE 0

EnrollRoute == "POST /api/courses/:id/enroll"

EnrollResponse(id, status, error) ==
    [route |-> EnrollRoute, id |-> id, status |-> status, error |-> error, at |-> now]

\* The enrol handler without the existingEnrollment test.
EnrollCourseNoCheck(id) ==
    IF id = MalformedId
    THEN /\ res' = EnrollResponse(id, 500, "Failed to enroll in course")
         /\ UNCHANGED <<browser, enrollment, quizDb, analyses, expertise, userQuizzes,
                        userCourses, statistics, achievements, interests, mentors, now>>
    ELSE IF ~(id \in CourseIds /\ Listed(id))
    THEN /\ res' = EnrollResponse(id, 404, "Course not found")
         /\ UNCHANGED <<browser, enrollment, quizDb, analyses, expertise, userQuizzes,
                        userCourses, statistics, achievements, interests, mentors, now>>
    ELSE /\ Len(userCourses) < 3
         /\ userCourses' = Append(userCourses, Enrollment(id, now))
         /\ enrollment' = [enrollment EXCEPT ![id] = @ + 1]
         /\ res' = EnrollResponse(id, 200, NoValue)
         /\ UNCHANGED <<browser, quizDb, analyses, expertise, userQuizzes, statistics,
                        achievements, interests, mentors, now>>

\* router.post('/:id/enroll') with course.incrementEnrollment()
EnrollCourse(id) ==
    IF id = MalformedId
    THEN /\ res' = EnrollResponse(id, 500, "Failed to enroll in course")
         /\ UNCHANGED <<browser, enrollment, quizDb, analyses, expertise, userQuizzes,
                        userCourses, statistics, achievements, interests, mentors, now>>
    ELSE IF ~(id \in CourseIds /\ Listed(id))
    THEN /\ res' = EnrollResponse(id, 404, "Course not found")
         /\ UNCHANGED <<browser, enrollment, quizDb, analyses, expertise, userQuizzes,
                        userCourses, statistics, achievements, interests, mentors, now>>
    ELSE IF CourseIndex(id) # 0
    THEN /\ res' = EnrollResponse(id, 400, "Already enrolled in this course")
         /\ UNCHANGED <<browser, enrollment, quizDb, analyses, expertise, userQuizzes,
                        userCourses, statistics, achievements, interests, mentors, now>>
    ELSE /\ userCourses' = Append(userCourses, Enrollment(id, now))
         /\ enrollment' = [enrollment EXCEPT ![id] = @ + 1]
         /\ res' = EnrollResponse(id, 200, NoValue)
         /\ UNCHANGED <<browser, quizDb, analyses, expertise, userQuizzes, statistics,
                        achievements, interests, mentors, now>>

\* req.body.progress
ProgressInputs == {0 - 1, 50, 100, 101}

ProgressResponse(id, status, error) ==
    [route |-> "PATCH /api/courses/:id/progress", id |-> id, status |-> status,
     error |-> error, at |-> now]

\* router.patch('/:id/progress'), timeSpent left out of the body
UpdateProgress(id, progress) ==
    LET k == CourseIndex(id)
    IN  IF progress < 0 \/ progress > 100
        THEN /\ res' = ProgressResponse(id, 400, "Progress must be between 0 and 100")
             /\ UNCHANGED <<browser, enrollment, quizDb, analyses, expertise, userQuizzes,
                            userCourses, statistics, achievements, interests, mentors, now>>
        ELSE IF k = 0
        THEN /\ res' = ProgressResponse(id, 404, "Course enrollment not found")
             /\ UNCHANGED <<browser, enrollment, quizDb, analyses, expertise, userQuizzes,
                            userCourses, statistics, achievements, interests, mentors, now>>
        ELSE IF progress >= 100
        THEN /\ statistics.totalCoursesCompleted < MaxCompletions
             /\ userCourses' = [userCourses EXCEPT ![k].progress = progress,
                                                   ![k].status = "completed"]
             /\ statistics' = [statistics EXCEPT !.totalCoursesCompleted = @ + 1]
             /\ achievements' = Append(achievements, "Course Completed")
             /\ res' = ProgressResponse(id, 200, NoValue)
             /\ UNCHANGED <<browser, enrollment, quizDb, analyses, expertise, userQuizzes,
                            interests, mentors, now>>
        ELSE /\ userCourses' = [userCourses EXCEPT ![k].progress = progress]
             /\ res' = ProgressResponse(id, 200, NoValue)
             /\ UNCHANGED <<browser, enrollment, quizDb, analyses, expertise, userQuizzes,
                            statistics, achievements, interests, mentors, now>>

InitEnroll ==
    /\ res = NoResponse
    /\ BrowserClosed
    /\ userCourses \in {<<>>, <<Enrollment(1, 0)>>}
    /\ enrollment \in {[c \in CourseIds |->
                           others + (IF CourseIndex(c) # 0 THEN 1 ELSE 0)] : others \in {0, 3}}
    /\ quizDb = <<>>
    /\ analyses = <<>>
    /\ expertise = <<>>
    /\ userQuizzes = <<>>
    /\ statistics = DefaultStatistics
    /\ achievements = <<>>
    /\ interests = {}
    /\ mentors = <<>>
    /\ now = 0

NextEnroll ==
    \/ \E id \in CourseIdInputs : EnrollCourse(id)
    \/ \E id \in CourseIds, p \in ProgressInputs : UpdateProgress(id, p)
    \/ Tick(MaxEnrollClock)

SpecEnroll == InitEnroll /\ [][NextEnroll]_vars

\* The number of user.courses entries of a course.
EntriesOf(c) == Cardinality({i \in 1..Len(userCourses) : userCourses[i].courseId = c})

\* The step is answered by the enrol handler for a course the user already holds.
RepeatedEnrol ==
    /\ res' # res
    /\ res'.route = EnrollRoute
    /\ EntriesOf(res'.id) > 0

\* C13: after any sequence of POST /api/courses/:id/enroll requests processed one
\* at a time, the user holds at most one enrolment entry per course; a repeated
\* enrol request for a course the user is already enrolled in is answered 400 and
\* changes neither the user's enrolments nor the course's enrollment.count.
C13_EnrolOncePerCourse ==
    /\ [](\A c \in CourseIdInputs : EntriesOf(c) <= 1)
    /\ [][RepeatedEnrol =>
            /\ res'.status = 400
            /\ userCourses' = userCourses
            /\ enrollment' = enrollment]_vars

\* The user is enrolled in two courses, one by a request of this run, and the
\* last request, a repeated one, was answered 400.
C13_Witness ==
    /\ res.route = EnrollRoute
    /\ res.status = 400
    /\ Len(userCourses) = 2
    /\ EntriesOf(res.id) = 1
    /\ \E i \in 1..Len(userCourses) : userCourses[i].enrolledAt > 0

----------------------------------------------------------------------------
(* GET /api/profiles/:id seen by different requesters                       *)

\* The other users of the profile-privacy model: a mentor and an administrator.
ViewedProfiles == {BaseCandidate, [BaseCandidate EXCEPT !.role = "admin"]}

InitView ==
    /\ res = NoResponse
    /\ BrowserClosed
    /\ enrollment = NoEnrollments
    /\ quizDb = <<>>
    /\ analyses = <<>>
    /\ expertise \in {<<>>, <<[subject |-> "math", level |-> Lv(3)]>>}
    /\ userQuizzes = <<>>
    /\ userCourses \in {<<>>, <<Enrollment(1, 0)>>}
    /\ statistics = DefaultStatistics
    /\ achievements = <<>>
    /\ interests = {}
    /\ mentors \in UNION {[1..n -> ViewedProfiles] : n \in 0..MaxMentors}
    /\ now = 0

NextView ==
    \E id \in ObjectIdInputs \cup {"suggestions"}, requester \in RequesterInputs :
        GetProfileAs(<<id>>, requester)

SpecView == InitView /\ [][NextView]_vars

IsProfileView == res.route = "GET /api/profiles/:id" /\ res.status = 200

\* The private parts of a profile the response carries.
PrivateParts ==
    (DOMAIN res.profile \cap {"email", "learningGoals", "preferences"})
    \cup (IF "details" \in DOMAIN res.profile.courses THEN {"courses.details"} ELSE {})

\* The requester of the response is the profile's owner or an administrator.
OwnerOrAdmin ==
    /\ res.requester # NoValue
    /\ \/ res.requester = res.path[1]
       \/ StoredUser(res.requester).role = "admin"

StrangerReadsProfile ==
    /\ IsProfileView
    /\ res.requester # NoValue
    /\ ~OwnerOrAdmin

\* select('-password -email') removes the email before the handler copies it: not
\* even the owner is sent it.
EmailNeverSent == IsProfileView => "email" \notin DOMAIN res.profile

----------------------------------------------------------------------------
(* Research router: GET /history, GET /:id, DELETE /:id, PATCH /:id/visibility *)

\* Bound on the stored analyses of the research-access model.
MaxAnalyses == 3

\* `limit = 10` of req.query in GET /history
DefaultHistoryLimit == 10

\* req.user._id of the requests: the user of the other sections and another one.
ResearchUsers == {"me", "other"}

\* A stored analysis with its _id (the _ids grow with the time of creation).
StoredAnalysis(id, userId, isPublic) ==
    [id |-> id] @@ [AnalysisDoc("Research Analysis", [len |-> 120], "ai")
                       EXCEPT !.userId = userId, !.isPublic = isPublic]

\* req.params.id: a stored or removed analysis's _id, a well-formed ObjectId no
\* analysis ever had (one past the bound), or a string that is no ObjectId (0).
AnalysisIdInputs == 0..(MaxAnalyses + 1)

\* The query without the userId condition.
AnyAnalysis(id, requester) ==
    IF \E i \in 1..Len(analyses) : analyses[i].id = id
    THEN CHOOSE i \in 1..Len(analyses) : analyses[i].id = id
    ELSE 0

\* ResearchAnalysis.findOne({_id: req.params.id, userId: req.user._id}): the
\* index of the match in the collection, 0 if there is none
OwnAnalysis(id, requester) ==
    IF \E i \in 1..Len(analyses) : analyses[i].id = id /\ analyses[i].userId = requester
    THEN CHOOSE i \in 1..Len(analyses) :
            analyses[i].id = id /\ analyses[i].userId = requester
    ELSE 0

ResearchResponse(route, id, requester, status) ==
    [route |-> route, id |-> id, requester |-> requester, status |-> status]

\* The answer and the effect the three /:id handlers share: 500 for an id that
\* casts to no ObjectId, 404 without a match, else `found`.
ResearchById(route, id, requester, found, collection) ==
    /\ IF id = MalformedId
       THEN res' = ResearchResponse(route, id, requester, 500) /\ UNCHANGED analyses
       ELSE IF OwnAnalysis(id, requester) = 0
       THEN res' = ResearchResponse(route, id, requester, 404) /\ UNCHANGED analyses
       ELSE res' = found @@ ResearchResponse(route, id, requester, 200)
            /\ analyses' = collection
    /\ UNCHANGED <<browser, enrollment, quizDb, expertise, userQuizzes, userCourses,
                   statistics, achievements, interests, mentors, now>>

\* router.get('/:id') of the research router
GetAnalysis(id, requester) ==
    LET k == OwnAnalysis(id, requester)
    IN  ResearchById("GET /api/research/:id", id, requester,
                     [analysis |-> IF k = 0 THEN NoValue ELSE analyses[k]], analyses)

\* router.delete('/:id'): findOneAndDelete
DeleteAnalysis(id, requester) ==
    LET k == OwnAnalysis(id, requester)
        Others(doc) == doc.id # id
    IN  ResearchById("DELETE /api/research/:id", id, requester,
                     [message |-> "Analysis deleted successfully"],
                     SelectSeq(analyses, Others))

\* req.body.isPublic, and !!isPublic
IsPublicInputs ==
    {[kind |-> "boolean", v |-> "true"], [kind |-> "boolean", v |-> "false"],
     [kind |-> "undefined", v |-> ""], [kind |-> "string", v |-> ""],
     [kind |-> "string", v |-> "false"]}

ToBoolean(x) ==
    CASE x.kind = "boolean" -> x.v = "true"
      [] x.kind = "string" -> x.v # ""
      [] OTHER -> FALSE

\* router.patch('/:id/visibility'): findOneAndUpdate(..., {new: true})
SetVisibility(id, requester, isPublic) ==
    LET k == OwnAnalysis(id, requester)
    IN  ResearchById("PATCH /api/research/:id/visibility", id, requester,
                     [message |-> "Visibility updated successfully",
                      isPublic |-> ToBoolean(isPublic)],
                     IF k = 0 THEN analyses
                     ELSE [analyses EXCEPT ![k].isPublic = ToBoolean(isPublic)])

\* req.query.page and req.query.limit after parseInt, <<>> when left out
PageInputs == {<<>>, <<2>>}
HistoryLimitInputs == {<<>>, <<1>>}

\* .sort({createdAt: -1}) of a sequence kept in order of creation
RECURSIVE Reverse(_)
Reverse(seq) == IF seq = <<>> THEN <<>> ELSE Reverse(Tail(seq)) \o <<Head(seq)>>

\* .select('-originalText')
WithoutText(doc) == [f \in DOMAIN doc \ {"textLen"} |-> doc[f]]

\* router.get('/history')
GetHistory(requester, pageParam, limitParam) ==
    LET page == IF pageParam = <<>> THEN 1 ELSE pageParam[1]
        limit == IF limitParam = <<>> THEN DefaultHistoryLimit ELSE limitParam[1]
        skip == (page - 1) * limit
        Mine(doc) == doc.userId = requester
        found == Reverse(SelectSeq(analyses, Mine))
        shown == SubSeq(found, skip + 1, Min(Len(found), skip + limit))
    IN  /\ res' = [route |-> "GET /api/research/history", requester |-> requester,
                   status |-> 200,
                   analyses |-> [i \in 1..Len(shown) |-> WithoutText(shown[i])],
                   pagination |-> [page |-> page, limit |-> limit, total |-> Len(found),
                                   pages |-> (Len(found) + limit - 1) \div limit]]
        /\ UNCHANGED <<browser, enrollment, quizDb, analyses, expertise, userQuizzes,
                       userCourses, statistics, achievements, interests, mentors, now>>

InitResearch ==
    /\ res = NoResponse
    /\ BrowserClosed
    /\ enrollment = NoEnrollments
    /\ quizDb = <<>>
    /\ \E n \in 0..MaxAnalyses :
          \E owner \in [1..n -> ResearchUsers], pub \in [1..n -> BOOLEAN] :
             analyses = [i \in 1..n |-> StoredAnalysis(i, owner[i], pub[i])]
    /\ expertise = <<>>
    /\ userQuizzes = <<>>
    /\ userCourses = <<>>
    /\ statistics = DefaultStatistics
    /\ achievements = <<>>
    /\ interests = {}
    /\ mentors = <<>>
    /\ now = 0

NextResearch ==
    \/ \E id \in AnalysisIdInputs, u \in ResearchUsers : GetAnalysis(id, u)
    \/ \E id \in AnalysisIdInputs, u \in ResearchUsers : DeleteAnalysis(id, u)
    \/ \E id \in AnalysisIdInputs, u \in ResearchUsers, v \in IsPublicInputs :
          SetVisibility(id, u, v)
    \/ \E u \in ResearchUsers, pg \in PageInputs, lm \in HistoryLimitInputs :
          GetHistory(u, pg, lm)

SpecResearch == InitResearch /\ [][NextResearch]_vars

AnalysisRoutes ==
    {"GET /api/research/:id", "DELETE /api/research/:id",
     "PATCH /api/research/:id/visibility"}

\* The stored analyses with a given _id.
AnalysesWithId(id) == {i \in 1..Len(analyses) : analyses[i].id = id}

\* The step is answered by one of the three /:id handlers.
AnalysisRequest == res' # res /\ res'.route \in AnalysisRoutes

\* C15: GET /api/research/:id, DELETE /api/research/:id and PATCH
\* /api/research/:id/visibility succeed only for the user who created the
\* analysis; for any other user they answer 404 and leave the analysis unchanged,
\* whatever its isPublic flag, and GET /api/research/history lists only the
\* requester's own analyses.
C15_OnlyTheCreatorReachesAnAnalysis ==
    /\ [][AnalysisRequest =>
            /\ res'.status = 200 =>
                  \E i \in AnalysesWithId(res'.id) : analyses[i].userId = res'.requester
            /\ \A i \in AnalysesWithId(res'.id) :
                  analyses[i].userId # res'.requester =>
                      res'.status = 404 /\ analyses' = analyses]_vars
    /\ [](res.route = "GET /api/research/history" =>
            \A i \in 1..Len(res.analyses) : res.analyses[i].userId = res.requester)
    /\ [](res.route = "GET /api/research/:id" /\ res.status = 200 =>
            res.analysis.userId = res.requester)

\* A user was refused another user's public analysis, which is still stored.
C15_Witness ==
    /\ res.route \in AnalysisRoutes
    /\ res.status = 404
    /\ \E i \in AnalysesWithId(res.id) :
          analyses[i].userId # res.requester /\ analyses[i].isPublic

\* The history of a user lists an analysis while another user's is stored.
HistoryLeavesOthersOut ==
    /\ res.route = "GET /api/research/history"
    /\ Len(res.analyses) > 0
    /\ \E i \in 1..Len(analyses) : analyses[i].userId # res.requester

\* The creator deleted an analysis.
CreatorDeletes ==
    /\ res.route = "DELETE /api/research/:id"
    /\ res.status = 200
    /\ AnalysesWithId(res.id) = {}

----------------------------------------------------------------------------
(* Frontend lib/api.ts: setAuthToken and the interceptors of apiClient      *)

\* Bound on the requests that await their response at a time.
MaxPending == 2

\* The argument of setAuthToken: string | null
TokenInputs == {Null, "", "t1", "t2"}

\* if (token): null and the empty string are falsy
TruthyToken(token) == token \notin {Null, ""}

\* setAuthToken without the removal of the stored item.
SetsTokenKeepsItem(token) ==
    /\ authToken' = token
    /\ IF TruthyToken(token)
       THEN authorization' = Bearer(token) /\ localStorage' = token
       ELSE authorization' = NoHeader /\ UNCHANGED localStorage

\* The assignments of setAuthToken (in the browser: typeof window !== 'undefined').
SetsToken(token) ==
    /\ authToken' = token
    /\ IF TruthyToken(token)
       THEN authorization' = Bearer(token) /\ localStorage' = token
       ELSE authorization' = NoHeader /\ localStorage' = Null

\* export const setAuthToken, called by the application
SetAuthToken(token) ==
    /\ SetsToken(token)
    /\ res' = [route |-> "setAuthToken", status |-> 0, token |-> token]
    /\ UNCHANGED <<pending, enrollment, quizDb, analyses, expertise, userQuizzes,
                   userCourses, statistics, achievements, interests, mentors, now>>

\* The module is evaluated when a page loads: authToken starts as null, the
\* instance has no Authorization default, and a saved token is installed.
ModuleLoads ==
    IF TruthyToken(localStorage)
    THEN SetsToken(localStorage)
    ELSE authToken' = Null /\ authorization' = NoHeader /\ UNCHANGED localStorage

LoadPage ==
    /\ ModuleLoads
    /\ pending' = <<>>
    /\ res' = [route |-> "page load", status |-> 0]
    /\ UNCHANGED <<enrollment, quizDb, analyses, expertise, userQuizzes, userCourses,
                   statistics, achievements, interests, mentors, now>>

\* apiClient.request through the request interceptor: the default header is
\* merged into the request and overwritten when authToken is truthy.
RequestHeader == IF TruthyToken(authToken) THEN Bearer(authToken) ELSE authorization

SendRequest ==
    /\ Len(pending) < MaxPending
    /\ pending' = Append(pending, RequestHeader)
    /\ res' = [route |-> "apiClient.request", status |-> 0,
               authorization |-> RequestHeader]
    /\ UNCHANGED <<authToken, authorization, localStorage, enrollment, quizDb, analyses,
                   expertise, userQuizzes, userCourses, statistics, achievements,
                   interests, mentors, now>>

\* error.response?.status of a request that ends: a status, or 0 when there is
\* no response (network error)
StatusInputs == {0, 200, 401, 403, 500}

\* The response interceptor: on 401 setAuthToken(null) and the redirect to
\* /auth/login, which loads the page anew.
ReceiveResponse(k, status) ==
    /\ k \in 1..Len(pending)
    /\ IF status = 401
       THEN /\ authToken' = Null
            /\ authorization' = NoHeader
            /\ localStorage' = Null
            /\ pending' = <<>>
       ELSE /\ pending' = SubSeq(pending, 1, k - 1) \o SubSeq(pending, k + 1, Len(pending))
            /\ UNCHANGED <<authToken, authorization, localStorage>>
    /\ res' = [route |-> "apiClient.response", status |-> status,
               authorization |-> pending[k]]
    /\ UNCHANGED <<enrollment, quizDb, analyses, expertise, userQuizzes, userCourses,
                   statistics, achievements, interests, mentors, now>>

InitClient ==
    /\ res = NoResponse
    /\ localStorage \in {Null, "t1"}
    /\ authToken = (IF TruthyToken(localStorage) THEN localStorage ELSE Null)
    /\ authorization = (IF TruthyToken(localStorage) THEN Bearer(localStorage)
                        ELSE NoHeader)
    /\ pending = <<>>
    /\ enrollment = NoEnrollments
    /\ quizDb = <<>>
    /\ analyses = <<>>
    /\ expertise = <<>>
    /\ userQuizzes = <<>>
    /\ userCourses = <<>>
    /\ statistics = DefaultStatistics
    /\ achievements = <<>>
    /\ interests = {}
    /\ mentors = <<>>
    /\ now = 0

NextClient ==
    \/ \E token \in TokenInputs : SetAuthToken(token)
    \/ LoadPage
    \/ SendRequest
    \/ \E k \in 1..MaxPending, status \in StatusInputs : ReceiveResponse(k, status)

SpecClient == InitClient /\ [][NextClient]_vars

\* authToken, the default header and the stored item hold the same token, or
\* all three are empty.
TokensAgree ==
    \/ /\ TruthyToken(authToken)
       /\ authorization = Bearer(authToken)
       /\ localStorage = authToken
    \/ /\ ~TruthyToken(authToken)
       /\ authorization = NoHeader
       /\ localStorage = Null

AllEmpty == ~TruthyToken(authToken) /\ authorization = NoHeader /\ localStorage = Null

\* The step is a call of setAuthToken with a non-null token.
SetsNonNullToken == res'.route = "setAuthToken" /\ res'.token # Null

\* The step sends a request.
Sends == res'.route = "apiClient.request" /\ Len(pending') > Len(pending)

\* C16: in the frontend API client, after any sequence of setAuthToken calls and
\* responses, authToken, the default Authorization header and localStorage
\* 'auth_token' agree (all hold the same token or all are empty); after a response
\* with status 401 they are all empty and every later request carries no
\* Authorization header until setAuthToken is called with a non-null token.
C16_TokenCopiesAgree ==
    /\ []TokensAgree
    /\ [][(res'.route = "apiClient.response" /\ res'.status = 401
             /\ Len(pending) > 0 /\ pending' = <<>>) => AllEmpty']_vars
    /\ [][(AllEmpty /\ ~SetsNonNullToken) =>
             /\ AllEmpty'
             /\ Sends => ~res'.authorization.present]_vars

\* A 401 response to a request that carried a token empties the client.
C16_Witness ==
    /\ res.route = "apiClient.response"
    /\ res.status = 401
    /\ res.authorization.present
    /\ AllEmpty

\* A request goes out without an Authorization header while an earlier request
\* that carried one is still in flight.
SendsWithoutHeader ==
    /\ res.route = "apiClient.request"
    /\ ~res.authorization.present
    /\ Len(pending) = 2
    /\ pending[1].present

----------------------------------------------------------------------------
(* GET /api/performance/progress                                            *)

\* Bound on the clock of the progress runs, in ticks.
MaxProgressClock == 3

\* req.query.timeframe; a value outside the switch takes the default branch
TimeframeInputs == {NoValue, "7d", "30d", "week"}

\* The switch on timeframe: the length of the range in days ('30d' by default).
TimeframeDays(timeframe) ==
    CASE timeframe = "7d" -> 7
      [] timeframe = "90d" -> 90
      [] timeframe = "1y" -> 365
      [] OTHER -> 30

\* date.toISOString().split('T')[0]: the calendar day of an instant, as a day
\* number (the clock starts at a midnight)
DateStr(t) == t \div OneDay

\* The entry a day starts with; score is kept as the fraction num / den.
EmptyDay == [quizzes |-> 0, courseProgress |-> 0, learningTime |-> 0,
             score |-> [num |-> 0, den |-> 1]]

\* The body of recentQuizzes.forEach for one quiz on an entry:
\* quizzes++, then score = (score + quiz.score) / quizzes
WithQuiz(entry, quiz) ==
    [entry EXCEPT !.quizzes = @ + 1,
                  !.learningTime = @ + quiz.timeSpent,
                  !.score = [num |-> entry.score.num + quiz.score * entry.score.den,
                             den |-> entry.score.den * (entry.quizzes + 1)]]

\* recentQuizzes.forEach over the quizzes in array order: the entries of the
\* days that have one are updated, the other quizzes are passed over.
RECURSIVE PopulateDaily(_, _)
PopulateDaily(daily, quizzes) ==
    IF quizzes = <<>> THEN daily
    ELSE LET quiz == Head(quizzes)
             day == DateStr(quiz.completedAt)
         IN  PopulateDaily(IF day \in DOMAIN daily
                           THEN [daily EXCEPT ![day] = WithQuiz(daily[day], quiz)]
                           ELSE daily,
                           Tail(quizzes))

\* router.get('/progress'): the days of the loop are those of
\* startDate + i days for i < Math.ceil((now - startDate) / day)
GetProgress(timeframe) ==
    LET startDate == now - TimeframeDays(timeframe) * OneDay
        Recent(quiz) == quiz.completedAt >= startDate
        recentQuizzes == SelectSeq(userQuizzes, Recent)
        days == TimeframeDays(timeframe)
        dates == {DateStr(startDate + i * OneDay) : i \in 0..(days - 1)}
        scores == [i \in 1..Len(recentQuizzes) |-> recentQuizzes[i].score]
    IN  /\ res' = [route |-> "GET /api/performance/progress", status |-> 200,
                   timeframe |-> timeframe, start |-> startDate, end |-> now,
                   summary |-> [totalQuizzes |-> Len(recentQuizzes),
                                averageScore |->
                                    IF Len(recentQuizzes) > 0
                                    THEN RoundDiv(SumSeq(scores), Len(recentQuizzes))
                                    ELSE 0],
                   dailyProgress |->
                       PopulateDaily([d \in dates |-> EmptyDay], recentQuizzes)]
        /\ UNCHANGED <<browser, enrollment, quizDb, analyses, expertise, userQuizzes,
                       userCourses, statistics, achievements, interests, mentors, now>>

InitProgress ==
    /\ res = NoResponse
    /\ BrowserClosed
    /\ enrollment = NoEnrollments
    /\ quizDb = <<ChoiceQuiz>>
    /\ analyses = <<>>
    /\ expertise = <<>>
    /\ userQuizzes = <<>>
    /\ userCourses = <<>>
    /\ statistics = DefaultStatistics
    /\ achievements = <<>>
    /\ interests = {}
    /\ mentors = <<>>
    /\ now = 0

NextProgress ==
    \/ \E timeframe \in TimeframeInputs : GetProgress(timeframe)
    \/ Tick(MaxProgressClock)
    \/ \E body \in AnswersInputs : SubmitQuiz(1, body)

SpecProgress == InitProgress /\ [][NextProgress]_vars

IsProgress == res.route = "GET /api/performance/progress" /\ res.status = 200

\* The scores of the quizzes the user completed on a day.
ScoresOn(day) ==
    LET OnDay(quiz) == DateStr(quiz.completedAt) = day
        done == SelectSeq(userQuizzes, OnDay)
    IN  [i \in 1..Len(done) |-> done[i].score]

\* C17: for each day of the selected timeframe, the dailyProgress entry returned
\* by GET /api/performance/progress has quizzes equal to the number of quizzes the
\* user completed on that day and score equal to the mean score of those quizzes
\* (0 when there are none).
C17_DailyEntryCountsAndAverages ==
    IsProgress =>
        \A day \in DOMAIN res.dailyProgress :
            /\ res.dailyProgress[day].quizzes = Len(ScoresOn(day))
            /\ res.dailyProgress[day].score.num * Len(ScoresOn(day))
                 = SumSeq(ScoresOn(day)) * res.dailyProgress[day].score.den
            /\ Len(ScoresOn(day)) = 0 => res.dailyProgress[day].score.num = 0

\* What the handler does keep: each entry counts the quizzes of its day.
EntriesCountTheirDay ==
    IsProgress =>
        \A day \in DOMAIN res.dailyProgress :
            res.dailyProgress[day].quizzes = Len(ScoresOn(day))

\* The response has an entry for the day of the request.
TodayHasAnEntry == IsProgress => DateStr(res.end) \in DOMAIN res.dailyProgress

\* An entry's score is right for a day of at most two quizzes.
UpToTwoQuizzesAverageRight ==
    IsProgress =>
        \A day \in DOMAIN res.dailyProgress :
            Len(ScoresOn(day)) <= 2 =>
                res.dailyProgress[day].score.num * Len(ScoresOn(day))
                    = SumSeq(ScoresOn(day)) * res.dailyProgress[day].score.den

====
